---------------------------- MODULE Spec2Model ----------------------------
(***************************************************************************)
(* A model of the old-crypto-rs VIC pipeline: the rank utility             *)
(* (helpers::to_numeric), the keyword shuffle (helpers::shuffle), the       *)
(* straddling checkerboard, the regular and the irregular columnar          *)
(* transposition, the VIC key schedule and the VicCipher orchestrator.      *)
(*                                                                         *)
(* Bytes are the integers 0..255 and a string or a byte slice is a          *)
(* sequence of bytes.  The source indexes from 0; At(s, i) reads the        *)
(* element the source calls s[i].  A Rust panic (an index out of range,     *)
(* an unwrap of None) is the result value with panic = TRUE.                *)
(***************************************************************************)
EXTENDS Integers, Sequences, FiniteSets, TLC

VARIABLES pc, km, c, src, ct, pt, ar

vars == <<pc, km, c, src, ct, pt, ar>>

-----------------------------------------------------------------------------
(* Bounds of the model. *)

\* longest enumerated key of the rank specification
MaxKeyLen == 4

\* longest enumerated key of the transposition specifications
MaxTKeyLen == 3

\* longest enumerated message of the transposition specifications
MaxMsgLen == 6

-----------------------------------------------------------------------------
(* Bytes and slices. *)

\* the number of values of a u8: `k as u8` keeps k modulo this
U8 == 256

At(s, i) == s[i + 1]

Min(a, b) == IF a <= b THEN a ELSE b

\* u8::is_ascii_digit
is_ascii_digit(b) == b >= 48 /\ b <= 57

\* all sequences over S of length at most n
RECURSIVE SeqsUpTo(_, _)
SeqsUpTo(S, n) ==
    IF n = 0 THEN {<<>>}
    ELSE LET shorter == SeqsUpTo(S, n - 1)
         IN  shorter \cup {Append(s, x) : s \in {t \in shorter : Len(t) = n - 1}, x \in S}

\* the slice s[lo..hi] of the source (hi exclusive)
Slice(s, lo, hi) == [i \in 1..(hi - lo) |-> s[lo + i]]

\* a slice of n copies of b
Repeat(b, n) == [i \in 1..n |-> b]

-----------------------------------------------------------------------------
(* helpers::to_numeric *)

\* the bytes that occur in s
Range(s) == {s[i] : i \in 1..Len(s)}

\* letters.to_vec() followed by sort_unstable(): the bytes in ascending order
\* (slot k holds the byte b with fewer than k+1 bytes below it and at least
\* k+1 bytes not above it)
sort_unstable(letters) ==
    LET below  == [b \in Range(letters) |->
                      Cardinality({j \in 1..Len(letters) : letters[j] < b})]
        upto   == [b \in Range(letters) |->
                      Cardinality({j \in 1..Len(letters) : letters[j] <= b})]
    IN  [k \in 1..Len(letters) |->
            CHOOSE b \in Range(letters) : below[b] < k /\ k <= upto[b]]

\* the inner loop of to_numeric: the first k with sorted[k] = ch that is not
\* used yet, or -1 when the loop ends without a break
FirstUnused(sorted, used, ch) ==
    LET hits == {k \in 0..(Len(sorted) - 1) : At(sorted, k) = ch /\ ~At(used, k)}
    IN  IF hits = {} THEN -1 ELSE CHOOSE k \in hits : \A h \in hits : k <= h

\* one turn of the outer loop of to_numeric, for letter i; st = [ar, used_sorted]
to_numeric_step(letters, sorted, i, st) ==
    LET k == FirstUnused(sorted, st.used_sorted, At(letters, i))
    IN  IF k < 0 THEN st
        ELSE [ar          |-> Append(st.ar, k % U8),
              used_sorted |-> [st.used_sorted EXCEPT ![k + 1] = TRUE]]

\* the outer loop of to_numeric over the letters lo..hi-1, in order (the first
\* half of the range is evaluated before the second half starts)
RECURSIVE to_numeric_loop(_, _, _, _, _)
to_numeric_loop(letters, sorted, lo, hi, st) ==
    IF hi <= lo THEN st
    ELSE IF hi = lo + 1 THEN to_numeric_step(letters, sorted, lo, st)
    ELSE LET mid == (lo + hi) \div 2
             fst == to_numeric_loop(letters, sorted, lo, mid, st)
         IN  IF Len(fst.ar) >= 0
             THEN to_numeric_loop(letters, sorted, mid, hi, fst)
             ELSE fst

to_numeric(key) ==
    to_numeric_loop(key, sort_unstable(key), 0, Len(key),
        [ar |-> <<>>, used_sorted |-> Repeat(FALSE, Len(key))]).ar

-----------------------------------------------------------------------------
(* The rank specification: to_numeric applied to a key. *)

\* "AAAAA" and the keys of test_to_numeric
KeyAAAAA == <<65, 65, 65, 65, 65>>

KeyARABESQUE == <<65, 82, 65, 66, 69, 83, 81, 85, 69>>

KeyPJRJJJJJJS == <<80, 74, 82, 74, 74, 74, 74, 74, 74, 83>>

\* a key one byte longer than a u8 can count: "B" followed by 256 "A"
LongKey == <<66>> \o Repeat(65, U8)

\* a key of exactly 256 bytes
FullKey == Repeat(65, U8 - 1) \o <<66>>

KeyBytes == {65, 66, 67}

NoResult == <<-1>>

NoCipher == [ok |-> FALSE, err |-> "none"]

RankKeys ==
    SeqsUpTo(KeyBytes, MaxKeyLen)
        \cup {KeyAAAAA, KeyARABESQUE, KeyPJRJJJJJJS, LongKey, FullKey}

RankInit ==
    /\ pc = "start"
    /\ km \in {[key |-> k] : k \in RankKeys}
    /\ c = NoCipher
    /\ src = <<>>
    /\ ct = NoResult
    /\ pt = NoResult
    /\ ar = NoResult

ToNumeric ==
    /\ pc = "start"
    /\ ar' = to_numeric(km.key)
    /\ pc' = "done"
    /\ UNCHANGED <<km, c, src, ct, pt>>

RankNext == ToNumeric

SpecRank == RankInit /\ [][RankNext]_vars

\* the rank the specification gives position i of key: the number of smaller
\* bytes plus the number of equal bytes before it
RankOf(key, i) ==
    Cardinality({j \in 0..(Len(key) - 1) : At(key, j) < At(key, i)})
        + Cardinality({j \in 0..(i - 1) : At(key, j) = At(key, i)})

IsRankSequence(key, r) ==
    /\ Len(r) = Len(key)
    /\ \A i \in 0..(Len(key) - 1) : At(r, i) = RankOf(key, i)
    /\ {At(r, i) : i \in 0..(Len(r) - 1)} = 0..(Len(key) - 1)

\* C5: for every key the result of to_numeric is the stable rank
\* sequence of the key, a permutation of 0..n-1, with rank("AAAAA") =
\* [0,1,2,3,4] and the empty sequence for the empty key.
C5_RankEveryKey ==
    pc = "done" =>
        /\ IsRankSequence(km.key, ar)
        /\ (km.key = KeyAAAAA => ar = <<0, 1, 2, 3, 4>>)
        /\ (km.key = <<>> => ar = <<>>)

\* what holds of to_numeric: the same for every key of at most 256 bytes (the
\* ranks are stored as u8)
C5_RankUpTo256 ==
    (pc = "done" /\ Len(km.key) <= U8) =>
        /\ IsRankSequence(km.key, ar)
        /\ (km.key = KeyAAAAA => ar = <<0, 1, 2, 3, 4>>)
        /\ (km.key = <<>> => ar = <<>>)

C5_Witness ==
    /\ pc = "done"
    /\ km.key = KeyAAAAA
    /\ ar = <<0, 1, 2, 3, 4>>

-----------------------------------------------------------------------------
(* transposition.rs: Transposition *)

\* self.tkey.iter().position(|&x| x == v): the first index holding v, or -1
\* for None
Position(tkey, v) ==
    LET hits == {k \in 0..(Len(tkey) - 1) : At(tkey, k) = v}
    IN  IF hits = {} THEN -1 ELSE CHOOSE k \in hits : \A h \in hits : k <= h

\* vec![0u8; n]
ZeroBuf(n) == Repeat(0, n)

\* Transposition::new
Transposition_new(key) ==
    IF key = <<>>
    THEN [ok |-> FALSE, err |-> "key can not be empty"]
    ELSE [ok |-> TRUE, key |-> key, tkey |-> to_numeric(key)]

\* the while loop of Transposition::encrypt: one column, from cell curr down;
\* st = [panic, dst, offset]
RECURSIVE tp_encrypt_col(_, _, _, _)
tp_encrypt_col(s, klen, curr, st) ==
    IF st.panic \/ curr >= Len(s) THEN st
    ELSE IF st.offset >= Len(st.dst) THEN [st EXCEPT !.panic = TRUE]
    ELSE tp_encrypt_col(s, klen, curr + klen,
             [panic  |-> FALSE,
              dst    |-> [st.dst EXCEPT ![st.offset + 1] = At(s, curr)],
              offset |-> st.offset + 1])

\* one turn of the for loop of Transposition::encrypt
tp_encrypt_step(tkey, s, i, st) ==
    LET j == Position(tkey, i % U8)
    IN  IF st.panic THEN st
        ELSE IF j < 0 THEN [st EXCEPT !.panic = TRUE]
        ELSE tp_encrypt_col(s, Len(tkey), j, st)

\* the for loop of Transposition::encrypt over i in lo..hi-1, in order
RECURSIVE tp_encrypt_loop(_, _, _, _, _)
tp_encrypt_loop(tkey, s, lo, hi, st) ==
    IF hi <= lo THEN st
    ELSE IF hi = lo + 1 THEN tp_encrypt_step(tkey, s, lo, st)
    ELSE LET mid == (lo + hi) \div 2
             fst == tp_encrypt_loop(tkey, s, lo, mid, st)
         IN  IF fst.offset >= 0
             THEN tp_encrypt_loop(tkey, s, mid, hi, fst)
             ELSE fst

\* Transposition::encrypt(dst, src): the buffer after the call and the count
\* returned
Transposition_encrypt(t, dst, s) ==
    LET st == tp_encrypt_loop(t.tkey, s, 0, Len(t.tkey),
                  [panic |-> FALSE, dst |-> dst, offset |-> 0])
    IN  [panic |-> st.panic, dst |-> st.dst, n |-> Len(s)]

\* the inner for loop of Transposition::decrypt: cells k..how_many-1 of one
\* column; st = [panic, dst, current]
RECURSIVE tp_decrypt_col(_, _, _, _, _, _)
tp_decrypt_col(s, klen, dst_idx, k, how_many, st) ==
    IF st.panic \/ k >= how_many THEN st
    ELSE IF dst_idx >= Len(st.dst) \/ st.current + k >= Len(s)
         THEN [st EXCEPT !.panic = TRUE]
    ELSE tp_decrypt_col(s, klen, dst_idx + klen, k + 1, how_many,
             [st EXCEPT !.dst = [st.dst EXCEPT ![dst_idx + 1] = At(s, st.current + k)]])

\* one turn of the outer for loop of Transposition::decrypt
tp_decrypt_step(tkey, s, j, st) ==
    LET klen     == Len(tkey)
        scol     == Len(s) \div klen
        extra    == Len(s) % klen
        ind      == Position(tkey, j % U8)
        how_many == IF ind < extra THEN scol + 1 ELSE scol
        filled   == tp_decrypt_col(s, klen, ind, 0, how_many, st)
    IN  IF st.panic THEN st
        ELSE IF ind < 0 THEN [st EXCEPT !.panic = TRUE]
        ELSE [filled EXCEPT !.current = @ + how_many]

\* the outer for loop of Transposition::decrypt over j in lo..hi-1, in order
RECURSIVE tp_decrypt_loop(_, _, _, _, _)
tp_decrypt_loop(tkey, s, lo, hi, st) ==
    IF hi <= lo THEN st
    ELSE IF hi = lo + 1 THEN tp_decrypt_step(tkey, s, lo, st)
    ELSE LET mid == (lo + hi) \div 2
             fst == tp_decrypt_loop(tkey, s, lo, mid, st)
         IN  IF fst.current >= 0
             THEN tp_decrypt_loop(tkey, s, mid, hi, fst)
             ELSE fst

\* Transposition::decrypt(dst, src)
Transposition_decrypt(t, dst, s) ==
    LET st == tp_decrypt_loop(t.tkey, s, 0, Len(t.tkey),
                  [panic |-> FALSE, dst |-> dst, current |-> 0])
    IN  IF Len(t.tkey) = 0 \/ s = <<>>
        THEN [panic |-> FALSE, dst |-> dst, n |-> 0]
        ELSE [panic |-> st.panic, dst |-> st.dst, n |-> Len(s)]

-----------------------------------------------------------------------------
(* The regular transposition specification: new, encrypt into a buffer of   *)
(* len(src) bytes, decrypt of the bytes written.                            *)

MsgBytes == {65, 66}

\* the last case of test_transposition_encrypt: key "SUBWAY"
KeySUBWAY == <<83, 85, 66, 87, 65, 89>>

\* "AVAGAGAVDFFGAVAGDGAVGVFX"
PtSUBWAY ==
    <<65, 86, 65, 71, 65, 71, 65, 86, 68, 70, 70, 71,
      65, 86, 65, 71, 68, 71, 65, 86, 71, 86, 70, 88>>

\* "AFDFADAGAAAAVVVVGFGVGGGX"
CtSUBWAY ==
    <<65, 70, 68, 70, 65, 68, 65, 71, 65, 65, 65, 65,
      86, 86, 86, 86, 71, 70, 71, 86, 71, 71, 71, 88>>

\* a message that fills one row under LongKey
LongMsg == Repeat(65, U8 + 1)

\* a message of one row under LongKey whose first cell differs from the others
LongMsgB == <<66>> \o Repeat(65, U8)

TpInputs ==
    (SeqsUpTo(KeyBytes, MaxTKeyLen) \X SeqsUpTo(MsgBytes, MaxMsgLen))
        \cup {<<KeySUBWAY, PtSUBWAY>>, <<LongKey, LongMsg>>, <<FullKey, LongMsg>>,
              <<LongKey, LongMsgB>>, <<FullKey, LongMsgB>>}

TpInit ==
    /\ pc = "start"
    /\ \E in \in TpInputs : km = [key |-> in[1]] /\ src = in[2]
    /\ c = NoCipher
    /\ ct = NoResult
    /\ pt = NoResult
    /\ ar = NoResult

TranspositionNew ==
    /\ pc = "start"
    /\ c' = Transposition_new(km.key)
    /\ pc' = IF c'.ok THEN "ready" ELSE "failed"
    /\ UNCHANGED <<km, src, ct, pt, ar>>

TranspositionEncrypt ==
    /\ pc = "ready"
    /\ ct' = Transposition_encrypt(c, ZeroBuf(Len(src)), src)
    /\ pc' = "encrypted"
    /\ UNCHANGED <<km, c, src, pt, ar>>

TranspositionDecrypt ==
    /\ pc = "encrypted"
    /\ ~ct.panic
    /\ pt' = Transposition_decrypt(c, ZeroBuf(ct.n), SubSeq(ct.dst, 1, ct.n))
    /\ pc' = "decrypted"
    /\ UNCHANGED <<km, c, src, ct, ar>>

TpNext == TranspositionNew \/ TranspositionEncrypt \/ TranspositionDecrypt

SpecTransposition == TpInit /\ [][TpNext]_vars

\* encrypt and decrypt both return len(x) and decrypt restores x
RoundTrip ==
    /\ (pc \in {"encrypted", "decrypted"} => ~ct.panic /\ ct.n = Len(src))
    /\ (pc = "decrypted" =>
            ~pt.panic /\ pt.n = Len(src) /\ SubSeq(pt.dst, 1, pt.n) = src)

\* C8: for every non-empty key and every byte string x,
\* Transposition.decrypt(Transposition.encrypt(x)) = x and both calls
\* return len(x).
C8_RoundTripEveryKey == RoundTrip

\* what holds of Transposition: the same for every non-empty key of at most
\* 256 bytes (the ranks are stored and compared as u8)
C8_RoundTripUpTo256 == Len(km.key) <= U8 => RoundTrip

\* a message shorter than the key, one that is not a multiple of the key
\* length, and the test vector of the source, all restored
C8_Witness ==
    /\ pc = "decrypted"
    /\ km.key = KeySUBWAY
    /\ src = PtSUBWAY
    /\ SubSeq(ct.dst, 1, ct.n) = CtSUBWAY
    /\ pt.dst = PtSUBWAY

-----------------------------------------------------------------------------
(* transposition.rs: IrregularTransposition *)

\* IrregularTransposition::new
IrregularTransposition_new(key) ==
    IF key = <<>>
    THEN [ok |-> FALSE, err |-> "key can not be empty"]
    ELSE [ok |-> TRUE, key |-> key, tkey |-> to_numeric(key)]

\* rows = (len + klen - 1) / klen
Rows(len, klen) == (len + klen - 1) \div klen

\* an area that does not move one column to the right per row
RECURSIVE mask_area_straight(_, _, _, _, _)
mask_area_straight(klen, rows, curr_row, curr_col, mask) ==
    IF ~(curr_row < rows /\ curr_col < klen) THEN mask
    ELSE mask_area_straight(klen, rows, curr_row + 1, curr_col,
             [idx \in 1..Len(mask) |->
                 IF idx - 1 >= curr_row * klen + curr_col /\ idx - 1 < curr_row * klen + klen
                 THEN TRUE ELSE mask[idx]])

\* the while loop of get_triangular_mask: one area, from (curr_row, curr_col)
\* on; each turn sets the cells curr_col..klen-1 of row curr_row
RECURSIVE mask_area(_, _, _, _, _)
mask_area(klen, rows, curr_row, curr_col, mask) ==
    IF ~(curr_row < rows /\ curr_col < klen) THEN mask
    ELSE mask_area(klen, rows, curr_row + 1, curr_col + 1,
             [idx \in 1..Len(mask) |->
                 IF idx - 1 >= curr_row * klen + curr_col /\ idx - 1 < curr_row * klen + klen
                 THEN TRUE ELSE mask[idx]])

\* a loop that builds three areas instead of two
RECURSIVE mask_loop_three(_, _, _, _)
mask_loop_three(tkey, rows, rank, st) ==
    IF rank >= Len(tkey) \/ st.areas_done >= 3 \/ st.panic THEN st
    ELSE LET start_col == Position(tkey, rank % U8)
         IN  IF start_col < 0 THEN [st EXCEPT !.panic = TRUE]
             ELSE mask_loop_three(tkey, rows, rank + 1,
                      [panic      |-> FALSE,
                       mask       |-> mask_area(Len(tkey), rows, 0, start_col, st.mask),
                       areas_done |-> st.areas_done + 1])

\* the for loop of get_triangular_mask from rank on; st = [panic, mask, areas_done]
RECURSIVE mask_loop(_, _, _, _)
mask_loop(tkey, rows, rank, st) ==
    IF rank >= Len(tkey) \/ st.areas_done >= 2 \/ st.panic THEN st
    ELSE LET start_col == Position(tkey, rank % U8)
         IN  IF start_col < 0 THEN [st EXCEPT !.panic = TRUE]
             ELSE mask_loop(tkey, rows, rank + 1,
                      [panic      |-> FALSE,
                       mask       |-> mask_area(Len(tkey), rows, 0, start_col, st.mask),
                       areas_done |-> st.areas_done + 1])

\* IrregularTransposition::get_triangular_mask(len): [panic, mask]
get_triangular_mask(t, len) ==
    LET klen == Len(t.tkey)
        rows == Rows(len, klen)
    IN  mask_loop(t.tkey, rows, 0,
            [panic |-> FALSE, mask |-> Repeat(FALSE, rows * klen), areas_done |-> 0])

\* one turn of a fill loop of IrregularTransposition::encrypt, for the cell
\* idx = r * klen + c; tri = FALSE in phase 1 and TRUE in phase 2;
\* st = [grid, active, src_idx]
itp_fill_step(s, mask, tri, idx, st) ==
    IF idx < Len(mask) /\ At(mask, idx) = tri /\ st.src_idx < Len(s)
    THEN [grid    |-> [st.grid EXCEPT ![idx + 1] = At(s, st.src_idx)],
          active  |-> [st.active EXCEPT ![idx + 1] = TRUE],
          src_idx |-> st.src_idx + 1]
    ELSE st

\* a fill loop of encrypt: for r in 0..rows, for c in 0..klen, that is, the
\* cells lo..hi-1 in ascending order of idx
RECURSIVE itp_fill_loop(_, _, _, _, _, _)
itp_fill_loop(s, mask, tri, lo, hi, st) ==
    IF hi <= lo THEN st
    ELSE IF hi = lo + 1 THEN itp_fill_step(s, mask, tri, lo, st)
    ELSE LET mid == (lo + hi) \div 2
             fst == itp_fill_loop(s, mask, tri, lo, mid, st)
         IN  IF fst.src_idx >= 0
             THEN itp_fill_loop(s, mask, tri, mid, hi, fst)
             ELSE fst

\* the inner loop of the readout of encrypt: column col from row r down;
\* st = [panic, dst, dst_idx]
RECURSIVE itp_read_col(_, _, _, _, _, _, _)
itp_read_col(grid, active, klen, rows, col, r, st) ==
    IF st.panic \/ r >= rows THEN st
    ELSE LET idx == r * klen + col
         IN  IF idx < rows * klen /\ At(active, idx)
             THEN IF st.dst_idx >= Len(st.dst) THEN [st EXCEPT !.panic = TRUE]
                  ELSE itp_read_col(grid, active, klen, rows, col, r + 1,
                           [panic   |-> FALSE,
                            dst     |-> [st.dst EXCEPT ![st.dst_idx + 1] = At(grid, idx)],
                            dst_idx |-> st.dst_idx + 1])
             ELSE itp_read_col(grid, active, klen, rows, col, r + 1, st)

\* one turn of the outer loop of the readout of encrypt
itp_read_step(tkey, grid, active, rows, i, st) ==
    LET col == Position(tkey, i % U8)
    IN  IF st.panic THEN st
        ELSE IF col < 0 THEN [st EXCEPT !.panic = TRUE]
        ELSE itp_read_col(grid, active, Len(tkey), rows, col, 0, st)

\* the outer loop of the readout of encrypt over i in lo..hi-1, in order
RECURSIVE itp_read_loop(_, _, _, _, _, _, _)
itp_read_loop(tkey, grid, active, rows, lo, hi, st) ==
    IF hi <= lo THEN st
    ELSE IF hi = lo + 1 THEN itp_read_step(tkey, grid, active, rows, lo, st)
    ELSE LET mid == (lo + hi) \div 2
             fst == itp_read_loop(tkey, grid, active, rows, lo, mid, st)
         IN  IF fst.dst_idx >= 0
             THEN itp_read_loop(tkey, grid, active, rows, mid, hi, fst)
             ELSE fst

\* IrregularTransposition::encrypt(dst, src): the buffer after the call, the
\* count returned, and the mask and the occupancy bitmap of the call
IrregularTransposition_encrypt(t, dst, s) ==
    LET klen == Len(t.tkey)
        len  == Len(s)
        rows == Rows(len, klen)
        m    == get_triangular_mask(t, len)
        ph1  == itp_fill_loop(s, m.mask, FALSE, 0, rows * klen,
                    [grid |-> ZeroBuf(rows * klen), active |-> Repeat(FALSE, rows * klen),
                     src_idx |-> 0])
        ph2  == itp_fill_loop(s, m.mask, TRUE, 0, rows * klen, ph1)
        out  == itp_read_loop(t.tkey, ph2.grid, ph2.active, rows, 0, klen,
                    [panic |-> FALSE, dst |-> dst, dst_idx |-> 0])
    IN  IF klen = 0 \/ len = 0
        THEN [panic |-> FALSE, dst |-> dst, n |-> 0, mask |-> <<>>, active |-> <<>>]
        ELSE IF m.panic
        THEN [panic |-> TRUE, dst |-> dst, n |-> 0, mask |-> m.mask, active |-> <<>>]
        ELSE [panic |-> out.panic, dst |-> out.dst, n |-> len,
              mask |-> m.mask, active |-> ph2.active]

\* one turn of a loop of decrypt that determines the active cells;
\* st = [active, count]
itp_mark_step(len, mask, tri, idx, st) ==
    IF idx < Len(mask) /\ At(mask, idx) = tri /\ st.count < len
    THEN [active |-> [st.active EXCEPT ![idx + 1] = TRUE], count |-> st.count + 1]
    ELSE st

\* a loop of decrypt that determines the active cells, over the cells lo..hi-1
RECURSIVE itp_mark_loop(_, _, _, _, _, _)
itp_mark_loop(len, mask, tri, lo, hi, st) ==
    IF hi <= lo THEN st
    ELSE IF hi = lo + 1 THEN itp_mark_step(len, mask, tri, lo, st)
    ELSE LET mid == (lo + hi) \div 2
             fst == itp_mark_loop(len, mask, tri, lo, mid, st)
         IN  IF fst.count >= 0
             THEN itp_mark_loop(len, mask, tri, mid, hi, fst)
             ELSE fst

\* the inner loop of the grid fill of decrypt: column col from row r down;
\* st = [panic, grid, src_idx]
RECURSIVE itp_write_col(_, _, _, _, _, _, _)
itp_write_col(s, active, klen, rows, col, r, st) ==
    IF st.panic \/ r >= rows THEN st
    ELSE LET idx == r * klen + col
         IN  IF idx < rows * klen /\ At(active, idx)
             THEN IF st.src_idx >= Len(s) THEN [st EXCEPT !.panic = TRUE]
                  ELSE itp_write_col(s, active, klen, rows, col, r + 1,
                           [panic   |-> FALSE,
                            grid    |-> [st.grid EXCEPT ![idx + 1] = At(s, st.src_idx)],
                            src_idx |-> st.src_idx + 1])
             ELSE itp_write_col(s, active, klen, rows, col, r + 1, st)

\* one turn of the outer loop of the grid fill of decrypt
itp_write_step(tkey, s, active, rows, i, st) ==
    LET col == Position(tkey, i % U8)
    IN  IF st.panic THEN st
        ELSE IF col < 0 THEN [st EXCEPT !.panic = TRUE]
        ELSE itp_write_col(s, active, Len(tkey), rows, col, 0, st)

\* the outer loop of the grid fill of decrypt over i in lo..hi-1, in order
RECURSIVE itp_write_loop(_, _, _, _, _, _, _)
itp_write_loop(tkey, s, active, rows, lo, hi, st) ==
    IF hi <= lo THEN st
    ELSE IF hi = lo + 1 THEN itp_write_step(tkey, s, active, rows, lo, st)
    ELSE LET mid == (lo + hi) \div 2
             fst == itp_write_loop(tkey, s, active, rows, lo, mid, st)
         IN  IF fst.src_idx >= 0
             THEN itp_write_loop(tkey, s, active, rows, mid, hi, fst)
             ELSE fst

\* one turn of a readout loop of decrypt, for the cell idx; st = [panic, dst, dst_idx]
itp_out_step(grid, active, mask, tri, idx, st) ==
    IF st.panic THEN st
    ELSE IF At(active, idx) /\ At(mask, idx) = tri
    THEN IF st.dst_idx >= Len(st.dst) THEN [st EXCEPT !.panic = TRUE]
         ELSE [panic   |-> FALSE,
               dst     |-> [st.dst EXCEPT ![st.dst_idx + 1] = At(grid, idx)],
               dst_idx |-> st.dst_idx + 1]
    ELSE st

\* a readout loop of decrypt over the cells lo..hi-1, row by row
RECURSIVE itp_out_loop(_, _, _, _, _, _, _)
itp_out_loop(grid, active, mask, tri, lo, hi, st) ==
    IF hi <= lo THEN st
    ELSE IF hi = lo + 1 THEN itp_out_step(grid, active, mask, tri, lo, st)
    ELSE LET mid == (lo + hi) \div 2
             fst == itp_out_loop(grid, active, mask, tri, lo, mid, st)
         IN  IF fst.dst_idx >= 0
             THEN itp_out_loop(grid, active, mask, tri, mid, hi, fst)
             ELSE fst

\* the readout of decrypt: first the cells outside the mask, then those in it
itp_decrypt_out(grid, active, mask, cells, dst) ==
    itp_out_loop(grid, active, mask, TRUE, 0, cells,
        itp_out_loop(grid, active, mask, FALSE, 0, cells,
            [panic |-> FALSE, dst |-> dst, dst_idx |-> 0]))

\* IrregularTransposition::decrypt(dst, src)
IrregularTransposition_decrypt(t, dst, s) ==
    LET klen == Len(t.tkey)
        len  == Len(s)
        rows == Rows(len, klen)
        m    == get_triangular_mask(t, len)
        a1   == itp_mark_loop(len, m.mask, FALSE, 0, rows * klen,
                    [active |-> Repeat(FALSE, rows * klen), count |-> 0])
        a2   == itp_mark_loop(len, m.mask, TRUE, 0, rows * klen, a1)
        g    == itp_write_loop(t.tkey, s, a2.active, rows, 0, klen,
                    [panic |-> FALSE, grid |-> ZeroBuf(rows * klen), src_idx |-> 0])
        out  == itp_decrypt_out(g.grid, a2.active, m.mask, rows * klen, dst)
    IN  IF klen = 0 \/ len = 0
        THEN [panic |-> FALSE, dst |-> dst, n |-> 0, mask |-> <<>>, active |-> <<>>]
        ELSE IF m.panic \/ g.panic
        THEN [panic |-> TRUE, dst |-> dst, n |-> 0, mask |-> m.mask, active |-> a2.active]
        ELSE [panic |-> out.panic, dst |-> out.dst, n |-> len,
              mask |-> m.mask, active |-> a2.active]

-----------------------------------------------------------------------------
(* The irregular transposition specification: new, encrypt into a buffer of *)
(* len(src) bytes, decrypt of the bytes written.                            *)

\* the key of test_irregular_transposition_mask: "94735236270398134"
KeyMaskTest == <<57, 52, 55, 51, 53, 50, 51, 54, 50, 55, 48, 51, 57, 56, 49, 51, 52>>

\* a message of the 150 bytes the test asks the mask for
MsgMaskTest == [i \in 1..150 |-> 65 + (i % 26)]

ItpInputs ==
    (SeqsUpTo(KeyBytes, MaxTKeyLen) \X SeqsUpTo(MsgBytes, MaxMsgLen))
        \cup {<<KeyMaskTest, MsgMaskTest>>, <<LongKey, LongMsg>>, <<FullKey, LongMsg>>,
              <<LongKey, LongMsgB>>, <<FullKey, LongMsgB>>}

ItpInit ==
    /\ pc = "start"
    /\ \E in \in ItpInputs : km = [key |-> in[1]] /\ src = in[2]
    /\ c = NoCipher
    /\ ct = NoResult
    /\ pt = NoResult
    /\ ar = NoResult

IrregularNew ==
    /\ pc = "start"
    /\ c' = IrregularTransposition_new(km.key)
    /\ pc' = IF c'.ok THEN "ready" ELSE "failed"
    /\ UNCHANGED <<km, src, ct, pt, ar>>

IrregularEncrypt ==
    /\ pc = "ready"
    /\ ct' = IrregularTransposition_encrypt(c, ZeroBuf(Len(src)), src)
    /\ pc' = "encrypted"
    /\ UNCHANGED <<km, c, src, pt, ar>>

IrregularDecrypt ==
    /\ pc = "encrypted"
    /\ ~ct.panic
    /\ pt' = IrregularTransposition_decrypt(c, ZeroBuf(ct.n), SubSeq(ct.dst, 1, ct.n))
    /\ pc' = "decrypted"
    /\ UNCHANGED <<km, c, src, ct, ar>>

ItpNext == IrregularNew \/ IrregularEncrypt \/ IrregularDecrypt

SpecIrregular == ItpInit /\ [][ItpNext]_vars

\* decrypt restores x, from the same mask and the same occupancy bitmap
IrregularRoundTrip ==
    /\ (pc \in {"encrypted", "decrypted"} => ~ct.panic /\ ct.n = Len(src))
    /\ (pc = "decrypted" =>
            /\ ~pt.panic
            /\ SubSeq(pt.dst, 1, pt.n) = src
            /\ pt.mask = ct.mask
            /\ pt.active = ct.active)

\* C9: for every non-empty key and every byte string x,
\* IrregularTransposition.decrypt(IrregularTransposition.encrypt(x)) = x, and
\* decrypt recomputes the mask and the occupancy bitmap of encrypt.
C9_IrregularRoundTripEveryKey == IrregularRoundTrip

\* what holds of IrregularTransposition: the same for every non-empty key of
\* at most 256 bytes
C9_IrregularRoundTripUpTo256 == Len(km.key) <= U8 => IrregularRoundTrip

\* a round trip in which both phases carried bytes: some cell outside the
\* mask and some cell inside it are occupied, over more than one row
C9_Witness ==
    /\ pc = "decrypted"
    /\ Len(km.key) = 3
    /\ Len(src) = 5
    /\ pt.dst = src
    /\ \E i \in 1..Len(ct.mask) : ct.active[i] /\ ct.mask[i]
    /\ \E i \in 1..Len(ct.mask) : ct.active[i] /\ ~ct.mask[i]
    /\ ct.dst # src

\* the columns whose rank is 0 or 1
Anchors(tkey) == {p \in 0..(Len(tkey) - 1) : At(tkey, p) \in {0, 1}}

\* C10: the mask of a call holds (row, col) exactly when col >= p0 + row or
\* col >= p1 + row, for p0 and p1 the columns of rank 0 and 1; under the key
\* "94735236270398134" p0 = 10 and p1 = 14, row 0 is triangular from column
\* 10 on and row 1 from column 11 on.
C10_TriangularMembership ==
    (pc \in {"encrypted", "decrypted"} /\ src # <<>>) =>
        LET klen == Len(c.tkey)
            rows == Rows(Len(src), klen)
        IN  /\ Len(ct.mask) = rows * klen
            /\ \A row \in 0..(rows - 1) : \A col \in 0..(klen - 1) :
                   At(ct.mask, row * klen + col)
                       <=> \E p \in Anchors(c.tkey) : col >= p + row
            /\ km.key = KeyMaskTest =>
                   /\ At(c.tkey, 10) = 0 /\ At(c.tkey, 14) = 1
                   /\ \A col \in 10..16 : At(ct.mask, col)
                   /\ \A col \in 0..9 : ~At(ct.mask, col)
                   /\ \A col \in 11..16 : At(ct.mask, klen + col)
                   /\ ~At(ct.mask, klen + 10)

\* the mask of the test of the source has been computed
C10_Witness ==
    /\ pc = "encrypted"
    /\ km.key = KeyMaskTest
    /\ Len(ct.mask) = 153
    /\ At(ct.mask, 10) /\ ~At(ct.mask, 9)
    /\ At(ct.mask, 17 + 11) /\ ~At(ct.mask, 17 + 10)

-----------------------------------------------------------------------------
(* helpers::condense and helpers::shuffle *)

\* the UTF-8 bytes of the char cp (String::push), for cp below 0x10000
utf8_char(cp) ==
    IF cp < 128 THEN <<cp>>
    ELSE IF cp < 2048 THEN <<192 + (cp \div 64), 128 + (cp % 64)>>
    ELSE <<224 + (cp \div 4096), 128 + ((cp \div 64) % 64), 128 + (cp % 64)>>

\* the UTF-8 bytes of a String given as its chars
RECURSIVE utf8_encode(_)
utf8_encode(cs) == IF cs = <<>> THEN <<>> ELSE utf8_char(Head(cs)) \o utf8_encode(Tail(cs))

\* String::from_utf8_lossy(bytes) as chars, from byte i on: an ASCII byte is
\* its char, a lead byte 0xC2..0xDF with a continuation byte 0x80..0xBF is a
\* two-byte char, a lead byte 0xE1..0xEF with two continuation bytes is a
\* three-byte char, and any other byte is replaced by U+FFFD = 65533 (the
\* strings of the model hold no char of U+0800..U+0FFF, none of the
\* surrogates and none above U+FFFF)
RECURSIVE from_utf8_lossy_loop(_, _)
from_utf8_lossy_loop(bytes, i) ==
    IF i >= Len(bytes) THEN <<>>
    ELSE LET b == At(bytes, i)
         IN  IF b < 128 THEN <<b>> \o from_utf8_lossy_loop(bytes, i + 1)
             ELSE IF b \in 194..223 /\ i + 1 < Len(bytes) /\ At(bytes, i + 1) \in 128..191
             THEN <<((b - 192) * 64) + (At(bytes, i + 1) - 128)>>
                      \o from_utf8_lossy_loop(bytes, i + 2)
             ELSE IF /\ b \in 225..239 /\ i + 2 < Len(bytes)
                     /\ At(bytes, i + 1) \in 128..191 /\ At(bytes, i + 2) \in 128..191
             THEN <<((b - 224) * 4096) + ((At(bytes, i + 1) - 128) * 64)
                        + (At(bytes, i + 2) - 128)>>
                      \o from_utf8_lossy_loop(bytes, i + 3)
             ELSE <<65533>> \o from_utf8_lossy_loop(bytes, i + 1)

from_utf8_lossy(bytes) == from_utf8_lossy_loop(bytes, 0)

\* str::chars() of a &str given as its UTF-8 bytes
chars(str) == from_utf8_lossy(str)

\* condense: the first occurrence of each character, in order
RECURSIVE condense_loop(_, _, _)
condense_loop(str, i, condensed) ==
    IF i > Len(str) THEN condensed
    ELSE IF str[i] \in Range(condensed)
         THEN condense_loop(str, i + 1, condensed)
         ELSE condense_loop(str, i + 1, Append(condensed, str[i]))

condense(str) == utf8_encode(condense_loop(chars(str), 1, <<>>))

\* Vec::remove(i)
Remove(word, i) == SubSeq(word, 1, i) \o SubSeq(word, i + 2, Len(word))

\* usize::saturating_sub
saturating_sub(a, b) == IF a >= b THEN a - b ELSE 0

\* the two nested loops of shuffle, from (i, j) on: i runs from length-1 down
\* to 0 and j from 0 to height inclusive
RECURSIVE shuffle_loop(_, _, _, _, _)
shuffle_loop(i, j, height, word, res) ==
    IF i < 0 THEN res
    ELSE IF j > height THEN shuffle_loop(i - 1, 0, height, word, res)
    ELSE IF Len(word) <= saturating_sub(height, 1) THEN res \o from_utf8_lossy(word)
    ELSE IF i * j < Len(word)
         THEN shuffle_loop(i, j + 1, height, Remove(word, i * j), Append(res, At(word, i * j)))
         ELSE shuffle_loop(i, j + 1, height, word, res)

\* helpers::shuffle(key, alphabet), for a key that is not empty
shuffle(key, alphabet) ==
    LET word   == condense(key \o alphabet)
        length == Len(condense(key))
        height == IF Len(alphabet) % length # 0
                  THEN (Len(alphabet) \div length) + 1
                  ELSE Len(alphabet) \div length
    IN  utf8_encode(shuffle_loop(length - 1, 0, height, word, <<>>))

\* the search of shuffle_next for the unused byte number target_index, from
\* idx on; actual_index stays 0 when the loop ends without a hit
RECURSIVE find_unused(_, _, _, _)
find_unused(used, idx, count, target_index) ==
    IF idx >= Len(used) THEN 0
    ELSE IF ~At(used, idx)
    THEN IF count = target_index THEN idx
         ELSE find_unused(used, idx + 1, count + 1, target_index)
    ELSE find_unused(used, idx + 1, count, target_index)

\* the bytes of word that are not used, from idx on, each pushed `as char`
RECURSIVE unused_chars(_, _, _)
unused_chars(word, used, idx) ==
    IF idx >= Len(word) THEN <<>>
    ELSE IF ~At(used, idx) THEN <<At(word, idx)>> \o unused_chars(word, used, idx + 1)
    ELSE unused_chars(word, used, idx + 1)

\* the two nested loops of shuffle_next, from (i, j) on;
\* st = [used, remaining, res]
RECURSIVE shuffle_next_loop(_, _, _, _, _)
shuffle_next_loop(i, j, height, word, st) ==
    IF i < 0 THEN st.res
    ELSE IF j > height THEN shuffle_next_loop(i - 1, 0, height, word, st)
    ELSE IF st.remaining <= saturating_sub(height, 1)
    THEN st.res \o unused_chars(word, st.used, 0)
    ELSE IF i * j < st.remaining
         THEN LET actual_index == find_unused(st.used, 0, 0, i * j)
              IN  shuffle_next_loop(i, j + 1, height, word,
                      [used      |-> [st.used EXCEPT ![actual_index + 1] = TRUE],
                       remaining |-> st.remaining - 1,
                       res       |-> Append(st.res, At(word, actual_index))])
         ELSE shuffle_next_loop(i, j + 1, height, word, st)

\* helpers::shuffle_next(key, alphabet), for a key that is not empty
shuffle_next(key, alphabet) ==
    LET word   == condense(key \o alphabet)
        length == Len(condense(key))
        height == IF Len(alphabet) % length # 0
                  THEN (Len(alphabet) \div length) + 1
                  ELSE Len(alphabet) \div length
    IN  utf8_encode(shuffle_next_loop(length - 1, 0, height, word,
            [used |-> Repeat(FALSE, Len(word)), remaining |-> Len(word), res |-> <<>>]))

-----------------------------------------------------------------------------
(* straddling.rs: StraddlingCheckerboard *)

\* "ABCDEFGHIJKLMNOPQRSTUVWXYZ/-"
ALPHABET_TXT ==
    <<65, 66, 67, 68, 69, 70, 71, 72, 73, 74, 75, 76, 77, 78,
      79, 80, 81, 82, 83, 84, 85, 86, 87, 88, 89, 90, 47, 45>>

\* b"0123456789"
ALL_CIPHER == <<48, 49, 50, 51, 52, 53, 54, 55, 56, 57>>

\* EncEntry::default()
EncEntryDefault == [len |-> 0, bytes |-> <<0, 0>>]

\* self.enc_table[ch]: the table holds the entries that were assigned, every
\* other byte has the default entry
EncEntry(enc_table, ch) ==
    IF ch \in DOMAIN enc_table THEN enc_table[ch] ELSE EncEntryDefault

\* the elements of s that satisfy Keep, in order
RECURSIVE FilterSeq(_, _)
FilterSeq(s, keep) ==
    IF s = <<>> THEN <<>>
    ELSE IF Head(s) \in keep THEN <<Head(s)>> \o FilterSeq(Tail(s), keep)
    ELSE FilterSeq(Tail(s), keep)

\* StraddlingCheckerboard::extract(set, two)
extract(set, two) == FilterSeq(set, Range(set) \ Range(two))

\* StraddlingCheckerboard::times10(c)
times10(ch) ==
    IF ch = 48
    THEN [i \in 1..10 |-> <<ALL_CIPHER[i]>>]
    ELSE [i \in 1..10 |-> <<ch, ALL_CIPHER[i]>>]

\* StraddlingCheckerboard::set_times10(set)
set_times10(set) == times10(set[1]) \o times10(set[2])

\* the loop of StraddlingCheckerboard::expand_key from character n of full on;
\* st = [panic, enc_table, dec1, dec2, i, j]
RECURSIVE sc_expand_loop(_, _, _, _, _, _)
sc_expand_loop(full, shortc, longc, freq, n, st) ==
    IF n >= Len(full) \/ st.panic THEN st
    ELSE LET ch == At(full, n)
         IN  IF ch \in Range(freq)
             THEN IF st.i < Len(shortc)
                  THEN LET digit == At(shortc, st.i)
                       IN  sc_expand_loop(full, shortc, longc, freq, n + 1,
                               [st EXCEPT
                                   !.enc_table = (ch :> [len |-> 1, bytes |-> <<digit, 0>>]) @@ @,
                                   !.dec1 = [@ EXCEPT ![digit - 48 + 1] = ch],
                                   !.i = @ + 1])
                  ELSE sc_expand_loop(full, shortc, longc, freq, n + 1, st)
             ELSE IF st.j < Len(longc)
                  THEN LET bytes == At(longc, st.j)
                       IN  IF Len(bytes) = 2
                           THEN LET d0 == bytes[1]
                                    d1 == bytes[2]
                                IN  IF ~is_ascii_digit(d0) \/ ~is_ascii_digit(d1)
                                    THEN [st EXCEPT !.panic = TRUE]
                                    ELSE sc_expand_loop(full, shortc, longc, freq, n + 1,
                                             [st EXCEPT
                                                 !.enc_table =
                                                     (ch :> [len |-> 2, bytes |-> <<d0, d1>>]) @@ @,
                                                 !.dec2 = [@ EXCEPT ![d0 - 48 + 1][d1 - 48 + 1] = ch],
                                                 !.j = @ + 1])
                           ELSE sc_expand_loop(full, shortc, longc, freq, n + 1,
                                    [st EXCEPT !.j = @ + 1])
                  ELSE sc_expand_loop(full, shortc, longc, freq, n + 1, st)

\* StraddlingCheckerboard::new_with_freq(key, chrs, freq_str, alphabet)
StraddlingCheckerboard_new_with_freq(key, chrs, freq_str, alphabet) ==
    LET longc  == <<chrs[1], chrs[2]>>
        full   == FilterSeq(shuffle(key, alphabet), Range(alphabet))
        shortc == extract(ALL_CIPHER, longc)
        mask   == [d \in 1..10 |-> \E k \in 1..2 : is_ascii_digit(longc[k]) /\ longc[k] - 48 = d - 1]
        t      == sc_expand_loop(full, shortc, set_times10(longc), freq_str, 0,
                      [panic     |-> FALSE,
                       enc_table |-> <<>>,
                       dec1      |-> ZeroBuf(10),
                       dec2      |-> [a \in 1..10 |-> ZeroBuf(10)],
                       i |-> 0, j |-> 0])
    IN  IF key = <<>> THEN [ok |-> FALSE, panic |-> FALSE, err |-> "key can not be empty"]
        ELSE IF Len(chrs) < 2
        THEN [ok |-> FALSE, panic |-> FALSE, err |-> "longc must have at least 2 characters"]
        ELSE IF t.panic THEN [ok |-> FALSE, panic |-> TRUE, err |-> "index out of bounds"]
        ELSE [ok |-> TRUE, key |-> key, longc |-> longc, full |-> full,
              enc_table |-> t.enc_table, dec1 |-> t.dec1, dec2 |-> t.dec2,
              longc_mask |-> mask]

\* "ESANTIRU"
FreqDefault == <<69, 83, 65, 78, 84, 73, 82, 85>>

\* StraddlingCheckerboard::new(key, chrs)
StraddlingCheckerboard_new(key, chrs) ==
    StraddlingCheckerboard_new_with_freq(key, chrs, FreqDefault, ALPHABET_TXT)

\* dst[at] = b, a panic when at is outside dst; st = [panic, dst, offset]
Store(st, at, b) ==
    IF st.panic THEN st
    ELSE IF at >= Len(st.dst) THEN [st EXCEPT !.panic = TRUE]
    ELSE [st EXCEPT !.dst = [@ EXCEPT ![at + 1] = b]]

\* the writes of one code of StraddlingCheckerboard::encrypt: the first
\* digit, the second one when the code has two, then offset += len
StoreEntry(st, entry) ==
    LET one == Store(st, st.offset, entry.bytes[1])
        two == IF entry.len = 2 THEN Store(one, st.offset + 1, entry.bytes[2]) ELSE one
    IN  IF two.panic THEN two ELSE [two EXCEPT !.offset = @ + entry.len]

\* dst[offset] = ch; dst[offset + 1] = ch; offset += 2
StoreTwice(st, ch) ==
    LET one == Store(st, st.offset, ch)
        two == Store(one, st.offset + 1, ch)
    IN  IF two.panic THEN two ELSE [two EXCEPT !.offset = @ + 2]

\* the body of the loop of StraddlingCheckerboard::encrypt for the byte ch
sc_encrypt_step(sc, ch, st) ==
    LET marker == EncEntry(sc.enc_table, 47)
        entry  == EncEntry(sc.enc_table, ch)
    IN  IF st.panic THEN st
        ELSE IF is_ascii_digit(ch)
        THEN IF marker.len # 0
             THEN StoreEntry(StoreTwice(StoreEntry(st, marker), ch), marker)
             ELSE st
        ELSE IF entry.len # 0 THEN StoreEntry(st, entry)
        ELSE st

\* the loop of StraddlingCheckerboard::encrypt from byte n of src on
RECURSIVE sc_encrypt_loop(_, _, _, _)
sc_encrypt_loop(sc, s, n, st) ==
    IF n >= Len(s) \/ st.panic THEN st
    ELSE sc_encrypt_loop(sc, s, n + 1, sc_encrypt_step(sc, At(s, n), st))

\* StraddlingCheckerboard::encrypt(dst, src)
StraddlingCheckerboard_encrypt(sc, dst, s) ==
    LET st == sc_encrypt_loop(sc, s, 0, [panic |-> FALSE, dst |-> dst, offset |-> 0])
    IN  [panic |-> st.panic, dst |-> st.dst, n |-> st.offset]

\* a write that does not look at dst.len()
EmitUnguarded(st, b) ==
    [dst |-> [st.dst EXCEPT ![st.pt_offset + 1] = b], pt_offset |-> st.pt_offset + 1]

\* dst[pt_offset] = b when pt_offset < dst.len(); st = [dst, pt_offset]
Emit(st, b) ==
    IF st.pt_offset < Len(st.dst)
    THEN [dst |-> [st.dst EXCEPT ![st.pt_offset + 1] = b], pt_offset |-> st.pt_offset + 1]
    ELSE st

\* the test of the digit escape in StraddlingCheckerboard::decrypt, after the
\* marker was decoded from db_len digits and i stands behind it
sc_is_escape(sc, s, i, db_len) ==
    /\ i + 4 <= Len(s)
    /\ At(s, i) = At(s, i + 1)
    /\ is_ascii_digit(At(s, i + 2))
    /\ is_ascii_digit(At(s, i + 3))
    /\ \/ (db_len = 2 /\ At(s, i + 2) = At(s, i - 2) /\ At(s, i + 3) = At(s, i - 1))
       \/ sc.dec2[At(s, i + 2) - 48 + 1][At(s, i + 3) - 48 + 1] = 47

\* the rest of a turn of the while loop of decrypt once ptc is decoded and
\* i stands behind the code: the next i and the output
sc_decrypt_emit(sc, s, i, db_len, ptc, st) ==
    IF ptc = 47 /\ sc_is_escape(sc, s, i, db_len)
    THEN [i |-> i + 4, st |-> Emit(st, At(s, i))]
    ELSE [i |-> i, st |-> IF ptc # 0 THEN Emit(st, ptc) ELSE st]

\* one turn of the while loop of StraddlingCheckerboard::decrypt at i
sc_decrypt_step(sc, s, i, st) ==
    LET ch == At(s, i)
        d0 == ch - 48
    IN  IF ~is_ascii_digit(ch) THEN [i |-> i + 1, st |-> st]
        ELSE IF sc.longc_mask[d0 + 1]
        THEN IF i + 1 < Len(s)
             THEN IF is_ascii_digit(At(s, i + 1))
                  THEN sc_decrypt_emit(sc, s, i + 2, 2,
                           sc.dec2[d0 + 1][At(s, i + 1) - 48 + 1], st)
                  ELSE [i |-> i + 2, st |-> st]
             ELSE [i |-> i + 1, st |-> st]
        ELSE sc_decrypt_emit(sc, s, i + 1, 1, sc.dec1[d0 + 1], st)

\* the while loop of StraddlingCheckerboard::decrypt from i on
RECURSIVE sc_decrypt_loop(_, _, _, _)
sc_decrypt_loop(sc, s, i, st) ==
    IF i >= Len(s) THEN st
    ELSE LET nx == sc_decrypt_step(sc, s, i, st)
         IN  sc_decrypt_loop(sc, s, nx.i, nx.st)

\* StraddlingCheckerboard::decrypt(dst, src)
StraddlingCheckerboard_decrypt(sc, dst, s) ==
    LET st == sc_decrypt_loop(sc, s, 0, [dst |-> dst, pt_offset |-> 0])
    IN  [panic |-> FALSE, dst |-> st.dst, n |-> st.pt_offset]

-----------------------------------------------------------------------------
(* The checkerboard on its own: construction, encrypt, decrypt *)

\* longest generated plaintext of the checkerboard and of the VIC cipher
MaxPtLen == 3

\* the buffers of the callers (vec![0u8; 100])
CallerBufLen == 100

KeyPORTABLE == <<80, 79, 82, 84, 65, 66, 76, 69>>

\* "ESANTIR/": a high-frequency set that holds the marker
FreqWithMarker == <<69, 83, 65, 78, 84, 73, 82, 47>>

\* "ATONESIR", the high-frequency set of VicCipher::new
FreqATONESIR == <<65, 84, 79, 78, 69, 83, 73, 82>>

\* "ATTACKAT2AM"
PtATTACKAT2AM == <<65, 84, 84, 65, 67, 75, 65, 84, 50, 65, 77>>

\* keys: "ARABESQUE", "SUBWAY", "PORTABLE", "A" and the empty key
ScKeys == {KeyARABESQUE, KeySUBWAY, KeyPORTABLE, <<65>>, <<>>}

\* prefixes: "89", "36", "80", "08", "88", "8a" and the short "8"
ScChrs == {<<56, 57>>, <<51, 54>>, <<56, 48>>, <<48, 56>>, <<56, 56>>, <<56, 97>>, <<56>>}

ScFreqs == {FreqDefault, FreqATONESIR, FreqWithMarker}

\* plaintext symbols: 'A', 'K', '2', '/'
ScPtBytes == {65, 75, 50, 47}

ScPlaintexts == SeqsUpTo(ScPtBytes, MaxPtLen) \cup {PtATTACKAT2AM}

ScInit ==
    /\ pc = "start"
    /\ km \in [key : ScKeys, chrs : ScChrs, freq_str : ScFreqs, alphabet : {ALPHABET_TXT}]
    /\ c = NoCipher
    /\ src \in ScPlaintexts
    /\ ct = NoResult
    /\ pt = NoResult
    /\ ar = NoResult

\* StraddlingCheckerboard::new_with_freq(km.key, km.chrs, km.freq_str, km.alphabet)
CheckerboardNew ==
    /\ pc = "start"
    /\ c' = StraddlingCheckerboard_new_with_freq(km.key, km.chrs, km.freq_str, km.alphabet)
    /\ pc' = IF c'.ok THEN "ready" ELSE IF c'.panic THEN "panicked" ELSE "failed"
    /\ UNCHANGED <<km, src, ct, pt, ar>>

\* c.encrypt(&mut [0; 100], src)
CheckerboardEncrypt ==
    /\ pc = "ready"
    /\ ct' = StraddlingCheckerboard_encrypt(c, ZeroBuf(CallerBufLen), src)
    /\ pc' = "encrypted"
    /\ UNCHANGED <<km, c, src, pt, ar>>

\* c.decrypt(&mut [0; 100], &ct[..n])
CheckerboardDecrypt ==
    /\ pc = "encrypted"
    /\ ~ct.panic
    /\ pt' = StraddlingCheckerboard_decrypt(c, ZeroBuf(CallerBufLen), Slice(ct.dst, 0, ct.n))
    /\ pc' = "decrypted"
    /\ UNCHANGED <<km, c, src, ct, ar>>

ScNext ==
    \/ CheckerboardNew
    \/ CheckerboardEncrypt
    \/ CheckerboardDecrypt

SpecCheckerboard == ScInit /\ [][ScNext]_vars

\* the code of ch: the first len bytes of its entry
Code(sc, ch) ==
    LET e == EncEntry(sc.enc_table, ch) IN SubSeq(e.bytes, 1, e.len)

\* what the decode tables give for the code of ch, 0 when the code's first
\* digit is not looked up in the table of its length
Decoded(sc, ch) ==
    LET code == Code(sc, ch)
    IN  IF Len(code) = 1
        THEN IF sc.longc_mask[code[1] - 48 + 1] THEN 0 ELSE sc.dec1[code[1] - 48 + 1]
        ELSE IF Len(code) = 2
        THEN IF sc.longc_mask[code[1] - 48 + 1]
             THEN sc.dec2[code[1] - 48 + 1][code[2] - 48 + 1] ELSE 0
        ELSE 0

\* every alphabet character has one code of 1 or 2 digits, no two characters
\* share a code, decoding a code gives its character and no one-digit code
\* is a prefix digit
TableInvariant(sc, alphabet) ==
    /\ \A ch \in Range(alphabet) : Len(Code(sc, ch)) \in {1, 2}
    /\ \A ch1, ch2 \in Range(alphabet) : ch1 # ch2 => Code(sc, ch1) # Code(sc, ch2)
    /\ \A ch \in Range(alphabet) : Decoded(sc, ch) = ch
    /\ \A ch \in Range(alphabet) :
           Len(Code(sc, ch)) = 1 => Code(sc, ch)[1] \notin Range(sc.longc)

\* C6: every checkerboard that construction accepts (non-empty key, prefix of
\* at least 2 characters, default alphabet, 8-letter high-frequency set) has
\* the table invariant
C6_TableInvariant ==
    (pc \in {"ready", "encrypted", "decrypted"} /\ km.alphabet = ALPHABET_TXT
        /\ Len(km.freq_str) = 8 /\ Range(km.freq_str) \subseteq 65..90)
        => TableInvariant(c, km.alphabet)

\* what holds of the table: under a prefix of two different digits other than
\* '0' and the default high-frequency set the table invariant holds
C6_TableDistinctNonZero ==
    (pc \in {"ready", "encrypted", "decrypted"} /\ km.freq_str = FreqDefault
        /\ km.chrs[1] # km.chrs[2] /\ 48 \notin Range(km.chrs))
        => TableInvariant(c, km.alphabet)

\* a checkerboard was built under the prefix "80" and has no code for '/'
C6_Witness ==
    /\ pc = "ready"
    /\ km.chrs = <<56, 48>>
    /\ Code(c, 47) = <<>>

\* the written part of a result
Written(r) == Slice(r.dst, 0, r.n)

\* A-Z and 0-9
LettersAndDigits == (65..90) \cup (48..57)

\* C7: for a checkerboard constructed without error and a plaintext of
\* letters A-Z and ASCII digits, decrypt(encrypt(plaintext)) = plaintext
C7_RoundTripWithDigits ==
    (pc = "decrypted" /\ Range(src) \subseteq LettersAndDigits) => Written(pt) = src

\* "ATTACKAT2AM" went through encrypt and decrypt under ("ARABESQUE", "80")
\* and came back without its digit
C7_Witness ==
    /\ pc = "decrypted"
    /\ km.key = KeyARABESQUE /\ km.chrs = <<56, 48>> /\ km.freq_str = FreqDefault
    /\ src = PtATTACKAT2AM
    /\ Written(pt) = <<65, 84, 84, 65, 67, 75, 65, 84, 65, 77>>

-----------------------------------------------------------------------------
(* vic.rs: the key schedule *)

\* str2int: b - b'0' for each byte; the key materials hold no byte below
\* b'0', so the subtraction does not underflow
str2int(str) == [i \in 1..Len(str) |-> str[i] - 48]

\* addmod10_inplace(a, b): a after the call, zip stops at the shorter one
addmod10_inplace(a, b) ==
    [i \in 1..Len(a) |-> IF i <= Len(b) THEN (a[i] + b[i]) % 10 ELSE a[i]]

\* submod10(a, b)
submod10(a, b) == [i \in 1..Min(Len(a), Len(b)) |-> (a[i] + 10 - b[i]) % 10]

\* a chain addition whose last digit adds the first digit after its update
chainadd_inplace_wrapnew(a) ==
    LET l == Len(a)
    IN  IF l < 2 THEN a
        ELSE [i \in 1..l |-> IF i < l THEN (a[i] + a[i + 1]) % 10
                             ELSE (a[l] + ((a[1] + a[2]) % 10)) % 10]

\* a loop that runs from the right, so that a[i + 1] is updated before it is
\* read
RECURSIVE chainadd_loop_updated(_, _)
chainadd_loop_updated(a, i) ==
    IF i >= Len(a) - 1 THEN a
    ELSE LET r == chainadd_loop_updated(a, i + 1)
         IN  [r EXCEPT ![i + 1] = (r[i + 1] + r[i + 2]) % 10]

\* the for loop of chainadd_inplace from i on: a[i] = (a[i] + a[i + 1]) % 10
\* for i in 0..l-1, in order
RECURSIVE chainadd_loop(_, _)
chainadd_loop(a, i) ==
    IF i >= Len(a) - 1 THEN a
    ELSE chainadd_loop([a EXCEPT ![i + 1] = (a[i + 1] + a[i + 2]) % 10], i + 1)

\* chainadd_inplace(a): a after the call; the last digit adds `first`, a[0]
\* as it was before the loop
chainadd_inplace(a) ==
    LET l     == Len(a)
        first == a[1]
        r     == chainadd_loop(a, 0)
    IN  IF l < 2 THEN a
        ELSE [r EXCEPT ![l] = (r[l] + first) % 10]

\* the for loop of chainadd_extend from i on; <<-1>> for the panic of res[i + 1]
RECURSIVE chainadd_extend_loop(_, _, _)
chainadd_extend_loop(res, i, n) ==
    IF i >= n THEN res
    ELSE IF i + 1 >= Len(res) THEN <<-1>>
    ELSE chainadd_extend_loop(Append(res, (At(res, i) + At(res, i + 1)) % 10), i + 1, n)

\* chainadd_extend(a, n)
chainadd_extend(a, n) == chainadd_extend_loop(a, 0, n)

\* a first_encode that looks up b[v] instead of b[(v + 9) % 10]
first_encode_direct(a, b) == [i \in 1..Len(a) |-> At(b, a[i] % 10)]

\* first_encode(a, b)
first_encode(a, b) == [i \in 1..Len(a) |-> At(b, (a[i] + 9) % 10)]

\* to_numeric(..).map(|x| (x + 1) % 10)
PlusOneMod10(r) == [i \in 1..Len(r) |-> (r[i] + 1) % 10]

\* the value of r after n turns of `for _ in 0..5 { chainadd_inplace(&mut r) }`
RECURSIVE chainadd_times(_, _)
chainadd_times(r, n) == IF n = 0 THEN r ELSE chainadd_times(chainadd_inplace(r), n - 1)

\* the digits as characters: b + b'0'
Digits2Str(r) == [i \in 1..Len(r) |-> r[i] + 48]

\* expand_key(phrase, imsg, ikey5): ExpandedKey, or the panic of a slice of
\* the phrase or of chainadd_extend
expand_key(phrase, imsg, ikey5) ==
    LET ph1    == PlusOneMod10(to_numeric(Slice(phrase, 0, 10)))
        ph2    == PlusOneMod10(to_numeric(Slice(phrase, 10, 20)))
        first  == chainadd_extend(submod10(imsg, ikey5), 5)
        second == first_encode(addmod10_inplace(first, ph1), ph2)
        r      == chainadd_times(second, 5)
    IN  IF Len(phrase) < 20 \/ Min(Len(imsg), Len(ikey5)) < 2
        THEN [panic |-> TRUE]
        ELSE [panic |-> FALSE, second |-> second, third |-> r,
              sckey |-> to_numeric(Digits2Str(r))]

\* VicCipher::new(persn, ind, phrase, imsg)
VicCipher_new(persn, ind, phrase, imsg) ==
    LET expanded == expand_key(phrase, str2int(imsg), str2int(Slice(ind, 0, 5)))
        firsttp  == Transposition_new(expanded.second)
        secondtp == IrregularTransposition_new(expanded.third)
        sc       == StraddlingCheckerboard_new_with_freq(Digits2Str(expanded.sckey), persn,
                        FreqATONESIR, ALPHABET_TXT)
    IN  IF Len(ind) < 5 THEN [ok |-> FALSE, panic |-> TRUE, err |-> "slice index"]
        ELSE IF expanded.panic THEN [ok |-> FALSE, panic |-> TRUE, err |-> "index out of bounds"]
        ELSE IF ~firsttp.ok THEN [ok |-> FALSE, panic |-> FALSE, err |-> firsttp.err]
        ELSE IF ~secondtp.ok THEN [ok |-> FALSE, panic |-> FALSE, err |-> secondtp.err]
        ELSE IF ~sc.ok THEN [ok |-> FALSE, panic |-> sc.panic, err |-> sc.err]
        ELSE [ok |-> TRUE, firsttp |-> firsttp, secondtp |-> secondtp, sc |-> sc]

\* VicCipher::encrypt(dst, src): the checkerboard writes into buf_sc of
\* src.len() * 3 bytes, the regular transposition into buf_tp1 of sc_len
\* bytes, the irregular one into dst; stage names the call that panicked
VicCipher_encrypt(v, dst, s) ==
    LET r1 == StraddlingCheckerboard_encrypt(v.sc, ZeroBuf(Len(s) * 3), s)
        r2 == Transposition_encrypt(v.firsttp, ZeroBuf(r1.n), Slice(r1.dst, 0, r1.n))
        r3 == IrregularTransposition_encrypt(v.secondtp, dst, Slice(r2.dst, 0, r2.n))
    IN  IF r1.panic THEN [panic |-> TRUE, stage |-> "sc", dst |-> dst, n |-> 0, sc_len |-> 0]
        ELSE IF r2.panic
        THEN [panic |-> TRUE, stage |-> "firsttp", dst |-> dst, n |-> 0, sc_len |-> r1.n]
        ELSE IF r3.panic
        THEN [panic |-> TRUE, stage |-> "secondtp", dst |-> dst, n |-> 0, sc_len |-> r1.n]
        ELSE [panic |-> FALSE, stage |-> "", dst |-> r3.dst, n |-> r3.n, sc_len |-> r1.n]

\* VicCipher::decrypt(dst, src)
VicCipher_decrypt(v, dst, s) ==
    LET r1 == IrregularTransposition_decrypt(v.secondtp, ZeroBuf(Len(s)), s)
        r2 == Transposition_decrypt(v.firsttp, ZeroBuf(r1.n), Slice(r1.dst, 0, r1.n))
        r3 == StraddlingCheckerboard_decrypt(v.sc, dst, Slice(r2.dst, 0, r2.n))
    IN  IF r1.panic THEN [panic |-> TRUE, stage |-> "secondtp", dst |-> dst, n |-> 0]
        ELSE IF r2.panic THEN [panic |-> TRUE, stage |-> "firsttp", dst |-> dst, n |-> 0]
        ELSE [panic |-> FALSE, stage |-> "", dst |-> r3.dst, n |-> r3.n]

-----------------------------------------------------------------------------
(* The VIC cipher: new, encrypt into the caller's buffer, decrypt of the    *)
(* bytes written.                                                            *)

\* "IDREAMOFJEANNIEWITHT"
PhraseIDREAM ==
    <<73, 68, 82, 69, 65, 77, 79, 70, 74, 69, 65, 78, 78, 73, 69, 87, 73, 84, 72, 84>>

\* "77651" and "1391944"
Imsg77651 == <<55, 55, 54, 53, 49>>
Imsg1391944 == <<49, 51, 57, 49, 57, 52, 52>>

\* "741776", its first five characters and the short "7417"
Ind741776 == <<55, 52, 49, 55, 55, 54>>
Ind74177 == <<55, 52, 49, 55, 55>>
Ind7417 == <<55, 52, 49, 55>>

\* "89" and "12"
Persn89 == <<56, 57>>
VicPersns == {Persn89, <<49, 50>>}

\* the key material of test_vic_cipher_full
KmFixture ==
    [persn |-> Persn89, ind |-> Ind741776, phrase |-> PhraseIDREAM, imsg |-> Imsg77651]

\* key material that is not valid: the personal number "8", a passphrase
\* of 19 characters, an empty message index, the message index "7765a" and
\* the personal number "8a"
KmShortPersn == [KmFixture EXCEPT !.persn = <<56>>]
KmShortPhrase == [KmFixture EXCEPT !.phrase = Slice(PhraseIDREAM, 0, 19)]
KmEmptyImsg == [KmFixture EXCEPT !.imsg = <<>>]
KmLetterImsg == [KmFixture EXCEPT !.imsg = <<55, 55, 54, 53, 97>>]
KmLetterPersn == [KmFixture EXCEPT !.persn = <<56, 97>>]

\* valid digit strings with a message index of three digits, "776", and of
\* two, "77"
KmImsg776 == [KmFixture EXCEPT !.imsg = <<55, 55, 54>>]
KmImsg77 == [KmFixture EXCEPT !.imsg = <<55, 55>>]

VicKeyMaterials ==
    [persn : VicPersns, ind : {Ind741776, Ind7417},
     phrase : {PhraseIDREAM}, imsg : {Imsg77651, Imsg1391944}]
        \cup {KmShortPersn, KmShortPhrase, KmEmptyImsg, KmLetterImsg, KmLetterPersn,
              KmImsg776, KmImsg77}

\* "HELLOWORLD"
PtHELLOWORLD == <<72, 69, 76, 76, 79, 87, 79, 82, 76, 68>>

\* plaintext symbols: 'A', 'J', '/', '1'
VicPtBytes == {65, 74, 47, 49}

VicPlaintexts == SeqsUpTo(VicPtBytes, MaxPtLen) \cup {PtHELLOWORLD}

Init ==
    /\ pc = "start"
    /\ km \in VicKeyMaterials
    /\ c = NoCipher
    /\ src \in VicPlaintexts
    /\ ct = NoResult
    /\ pt = NoResult
    /\ ar = NoResult

\* VicCipher::new(km.persn, km.ind, km.phrase, km.imsg)
VicNew ==
    /\ pc = "start"
    /\ c' = VicCipher_new(km.persn, km.ind, km.phrase, km.imsg)
    /\ pc' = IF c'.ok THEN "ready" ELSE IF c'.panic THEN "panicked" ELSE "failed"
    /\ UNCHANGED <<km, src, ct, pt, ar>>

\* cipher.encrypt(&mut [0; 100], src)
VicEncrypt ==
    /\ pc = "ready"
    /\ ct' = VicCipher_encrypt(c, ZeroBuf(CallerBufLen), src)
    /\ pc' = "encrypted"
    /\ UNCHANGED <<km, c, src, pt, ar>>

\* cipher.decrypt(&mut [0; 100], &ct[..n])
VicDecrypt ==
    /\ pc = "encrypted"
    /\ ~ct.panic
    /\ pt' = VicCipher_decrypt(c, ZeroBuf(CallerBufLen), Slice(ct.dst, 0, ct.n))
    /\ pc' = "decrypted"
    /\ UNCHANGED <<km, c, src, ct, ar>>

Next ==
    \/ VicNew
    \/ VicEncrypt
    \/ VicDecrypt

Spec == Init /\ [][Next]_vars

\* the states in which c is a VicCipher
VicBuilt == pc \in {"ready", "encrypted", "decrypted"}

\* C1: for every VicCipher built from valid key material and every plaintext
\* of symbols of the checkerboard alphabet, decrypt of the bytes that encrypt
\* produced returns exactly the plaintext
C1_VicRoundTrip ==
    Range(src) \subseteq Range(ALPHABET_TXT) =>
        /\ pc = "encrypted" => ~ct.panic
        /\ pc = "decrypted" => Written(pt) = src

\* "HELLOWORLD" went through encrypt and decrypt under the key material of
\* test_vic_cipher_full
C1_Witness ==
    /\ pc = "decrypted"
    /\ km = KmFixture
    /\ src = PtHELLOWORLD
    /\ Written(pt) = PtHELLOWORLD

\* C2: for every plaintext, digits included, the digit stream the
\* checkerboard stage of VicCipher::encrypt writes is at most 3 * len(src)
\* bytes long and every write stays inside buf_sc
C2_BufferBound ==
    pc = "encrypted" =>
        /\ ~(ct.panic /\ ct.stage = "sc")
        /\ ct.sc_len <= 3 * Len(src)

\* the checkerboard stage ran on a plaintext with a digit
C2_Witness ==
    /\ pc = "encrypted"
    /\ src = <<49>>
    /\ ct.panic /\ ct.stage = "sc"

\* C3: the key material ("89", "741776", "IDREAMOFJEANNIEWITHT", "77651")
\* yields transpositionKeyB = 0 6 8 2 0 5 1 3 7 0
C3_FixtureKeyB ==
    (VicBuilt /\ km = KmFixture) => c.secondtp.key = <<0, 6, 8, 2, 0, 5, 1, 3, 7, 0>>

\* C3, amended: the key material ("89", "741776", "IDREAMOFJEANNIEWITHT",
\* "77651") yields transpositionKeyB = 1 2 0 4 3 1 7 5 9 8
C3_FixtureKeyBDerived ==
    (VicBuilt /\ km = KmFixture) =>
        /\ c.secondtp.key = <<1, 2, 0, 4, 3, 1, 7, 5, 9, 8>>
        /\ expand_key(km.phrase, str2int(km.imsg), str2int(Slice(km.ind, 0, 5))).third
               = <<1, 2, 0, 4, 3, 1, 7, 5, 9, 8>>

\* the cipher of test_vic_cipher_full was built and keys its irregular
\* transposition with 1 2 0 4 3 1 7 5 9 8
C3_Witness ==
    /\ pc = "ready"
    /\ km = KmFixture
    /\ c.secondtp.key = <<1, 2, 0, 4, 3, 1, 7, 5, 9, 8>>
    /\ Len(c.secondtp.tkey) = 10

\* C4: with the passphrase "IDREAMOFJEANNIEWITHT", the message index digits
\* 1 3 9 1 9 (of "1391944") and the indicator digits 7 4 1 7 7 the steps give
\* J, K, L, transpositionKeyA, transpositionKeyB and checkerboardKey =
\* rank(transpositionKeyB) of the worked example, and expand_key returns
\* exactly these three keys
C4_WorkedExample ==
    (VicBuilt /\ km.phrase = PhraseIDREAM /\ km.imsg = Imsg1391944
        /\ Slice(km.ind, 0, 5) = Ind74177) =>
        LET imsg  == str2int(km.imsg)
            ikey5 == str2int(Slice(km.ind, 0, 5))
            J     == submod10(imsg, ikey5)
            K     == chainadd_extend(J, 5)
            L     == addmod10_inplace(K, PlusOneMod10(to_numeric(Slice(km.phrase, 0, 10))))
            keyB  == <<0, 6, 8, 2, 0, 5, 1, 3, 7, 0>>
        IN  /\ Slice(imsg, 0, 5) = <<1, 3, 9, 1, 9>>
            /\ ikey5 = <<7, 4, 1, 7, 7>>
            /\ J = <<4, 9, 8, 4, 2>>
            /\ K = <<4, 9, 8, 4, 2, 3, 7, 2, 6, 5>>
            /\ L = <<0, 1, 8, 7, 3, 1, 6, 7, 3, 9>>
            /\ expand_key(km.phrase, imsg, ikey5) =
                   [panic  |-> FALSE,
                    second |-> <<9, 1, 8, 5, 7, 1, 0, 5, 7, 3>>,
                    third  |-> keyB,
                    sckey  |-> <<0, 7, 9, 4, 1, 6, 3, 5, 8, 2>>]
            /\ IsRankSequence(Digits2Str(keyB), <<0, 7, 9, 4, 1, 6, 3, 5, 8, 2>>)
            /\ c.firsttp.key = <<9, 1, 8, 5, 7, 1, 0, 5, 7, 3>>
            /\ c.secondtp.key = keyB
            /\ c.sc.key = Digits2Str(<<0, 7, 9, 4, 1, 6, 3, 5, 8, 2>>)

\* a cipher was built from the inputs of the worked example
C4_Witness ==
    /\ pc = "ready"
    /\ km.phrase = PhraseIDREAM /\ km.imsg = Imsg1391944
    /\ str2int(Slice(km.ind, 0, 5)) = <<7, 4, 1, 7, 7>>
    /\ c.firsttp.key = <<9, 1, 8, 5, 7, 1, 0, 5, 7, 3>>
    /\ c.sc.key = <<48, 55, 57, 52, 49, 54, 51, 53, 56, 50>>

-----------------------------------------------------------------------------
(* Construction errors *)

\* key material that VicCipher::new documents as invalid: a personal number
\* shorter than 2, an indicator shorter than 5, a passphrase shorter than 20,
\* an empty message index, a digit field with a non-digit character
InvalidKeyMaterial(m) ==
    \/ Len(m.persn) < 2
    \/ Len(m.ind) < 5
    \/ Len(m.phrase) < 20
    \/ m.imsg = <<>>
    \/ \E f \in {m.persn, m.ind, m.imsg} : \E i \in 1..Len(f) : ~is_ascii_digit(f[i])

\* C11: VicCipher::new reports invalid key material as a returned error and
\* never aborts
C11_ConstructionErrors ==
    /\ pc # "panicked"
    /\ (pc # "start" /\ InvalidKeyMaterial(km)) => (pc = "failed" /\ ~c.ok /\ ~c.panic)

\* VicCipher::new returned the error of the checkerboard for the personal
\* number "8"
C11_Witness ==
    /\ pc = "failed"
    /\ km = KmShortPersn
    /\ c.err = "longc must have at least 2 characters"

\* C12: new_with_freq returns an error if and only if the key is empty or the
\* prefix has fewer than 2 characters, Transposition::new and
\* IrregularTransposition::new if and only if the key is empty, and every
\* other input yields a cipher instance
C12_ConstructorValidation ==
    /\ pc # "start" =>
           /\ (pc = "failed") <=> (km.key = <<>> \/ Len(km.chrs) < 2)
           /\ (pc # "failed") => c.ok
    /\ \A k \in SeqsUpTo(KeyBytes, MaxTKeyLen) :
           /\ Transposition_new(k).ok <=> (k # <<>>)
           /\ IrregularTransposition_new(k).ok <=> (k # <<>>)

\* new_with_freq("ARABESQUE", "8a", ...) neither returned an error nor
\* yielded an instance
C12_Witness ==
    /\ pc = "panicked"
    /\ km.key = KeyARABESQUE /\ km.chrs = <<56, 97>>
    /\ ~c.ok /\ c.panic

-----------------------------------------------------------------------------
(* Repeated calls on one VicCipher.  encrypt and decrypt take &self and the *)
(* structs hold no Cell, RefCell, Mutex or atomic: a call cannot assign a   *)
(* field of the instance.  buf_sc, buf_tp1, buf_tp2, the grid and the mask  *)
(* are locals of the call.  ar is the log of the calls made so far.         *)

\* the longest sequence of calls
MaxCalls == 3

\* "A", "/J/", "AJ1"
CallPlaintexts == {<<65>>, <<47, 74, 47>>, <<65, 74, 49>>}

CallKeyMaterials == {KmFixture, [KmFixture EXCEPT !.imsg = Imsg1391944]}

CallsInit ==
    /\ pc = "start"
    /\ km \in CallKeyMaterials
    /\ c = NoCipher
    /\ src = <<>>
    /\ ct = NoResult
    /\ pt = NoResult
    /\ ar = <<>>

\* VicCipher::new(km.persn, km.ind, km.phrase, km.imsg)
CallNew ==
    /\ pc = "start"
    /\ c' = VicCipher_new(km.persn, km.ind, km.phrase, km.imsg)
    /\ pc' = IF c'.ok THEN "ready" ELSE IF c'.panic THEN "panicked" ELSE "failed"
    /\ UNCHANGED <<km, src, ct, pt, ar>>

\* an encrypt that keeps the checkerboard key of the instance in step with
\* the bytes it wrote
CallEncryptRetaining ==
    /\ pc = "ready"
    /\ Len(ar) < MaxCalls
    /\ \E x \in CallPlaintexts :
           /\ src' = x
           /\ ct' = VicCipher_encrypt(c, ZeroBuf(CallerBufLen), x)
    /\ c' = [c EXCEPT !.firsttp.tkey = Slice(ct'.dst, 0, ct'.n)]
    /\ ar' = Append(ar, [op |-> "encrypt", arg |-> src', res |-> ct'])
    /\ pc' = IF ct'.panic THEN "panicked" ELSE "ready"
    /\ UNCHANGED <<km, pt>>

\* one more cipher.encrypt(&mut [0; 100], x) on the same instance
CallEncrypt ==
    /\ pc = "ready"
    /\ Len(ar) < MaxCalls
    /\ \E x \in CallPlaintexts :
           /\ src' = x
           /\ ct' = VicCipher_encrypt(c, ZeroBuf(CallerBufLen), x)
    /\ ar' = Append(ar, [op |-> "encrypt", arg |-> src', res |-> ct'])
    /\ pc' = IF ct'.panic THEN "panicked" ELSE "ready"
    /\ UNCHANGED <<km, c, pt>>

\* one more cipher.decrypt(&mut [0; 100], &ct[..n]) of the bytes of the last
\* encrypt
CallDecrypt ==
    /\ pc = "ready"
    /\ 0 < Len(ar) /\ Len(ar) < MaxCalls
    /\ pt' = VicCipher_decrypt(c, ZeroBuf(CallerBufLen), Written(ct))
    /\ ar' = Append(ar, [op |-> "decrypt", arg |-> Written(ct), res |-> pt'])
    /\ pc' = IF pt'.panic THEN "panicked" ELSE "ready"
    /\ UNCHANGED <<km, c, src, ct>>

CallsNext ==
    \/ CallNew
    \/ CallEncrypt
    \/ CallDecrypt

SpecCalls == CallsInit /\ [][CallsNext]_vars

\* C14: after any sequence of encrypt and decrypt calls the instance (rank
\* sequences of both transpositions, code tables of the checkerboard) equals
\* its value at construction and holds nothing else, a call returns the same
\* bytes as the first call with the same argument, and the last encrypt
\* returned what a fresh instance returns
C14_Stateless ==
    pc = "ready" =>
        LET fresh == VicCipher_new(km.persn, km.ind, km.phrase, km.imsg)
        IN  /\ fresh.ok
            /\ c = fresh
            /\ DOMAIN c = {"ok", "firsttp", "secondtp", "sc"}
            /\ \A i, j \in 1..Len(ar) :
                   (ar[i].op = ar[j].op /\ ar[i].arg = ar[j].arg)
                       => ar[i].res = ar[j].res
            /\ (ar # <<>> /\ ar[Len(ar)].op = "encrypt") =>
                   ct = VicCipher_encrypt(fresh, ZeroBuf(CallerBufLen), ar[Len(ar)].arg)

\* "AJ1" was encrypted, another plaintext was encrypted, and "AJ1" was
\* encrypted again
C14_Witness ==
    /\ pc = "ready"
    /\ Len(ar) = 3
    /\ ar[1].op = "encrypt" /\ ar[1].arg = <<65, 74, 49>>
    /\ ar[2].op = "encrypt" /\ ar[2].arg = <<47, 74, 47>>
    /\ ar[3].op = "encrypt" /\ ar[3].arg = <<65, 74, 49>>
    /\ ar[3].res.n > 0

-----------------------------------------------------------------------------
(* Two calls in flight on one VicCipher.  A call reads the instance through *)
(* &self and owns its dst, buf_sc, buf_tp1 and buf_tp2; a step is one stage *)
(* of the call.  pc, src, ar and ct hold, per thread, the position, the     *)
(* call, the local buffers and the result.                                  *)

Threads == {1, 2}

\* "106999169" and "699996": what encrypt writes for "AJ1" and "/J/" under
\* the key material of test_vic_cipher_full
CtAJ1 == <<49, 48, 54, 57, 57, 57, 49, 54, 57>>
CtSlashJSlash == <<54, 57, 57, 57, 57, 54>>

ConcCalls ==
    [op : {"encrypt"}, arg : {<<65, 74, 49>>, <<47, 74, 47>>, PtHELLOWORLD}]
        \cup [op : {"decrypt"}, arg : {CtAJ1, CtSlashJSlash}]

\* the locals of a call before its first stage
NoLocals ==
    [buf_sc |-> <<>>, sc_len |-> 0, buf_tp1 |-> <<>>, tp1_len |-> 0,
     buf_tp2 |-> <<>>, tp2_len |-> 0]

ConcInit ==
    /\ km \in CallKeyMaterials
    /\ c = VicCipher_new(km.persn, km.ind, km.phrase, km.imsg)
    /\ src \in [Threads -> ConcCalls]
    /\ pc = [t \in Threads |-> "call"]
    /\ ar = [t \in Threads |-> NoLocals]
    /\ ct = [t \in Threads |-> NoResult]
    /\ pt = NoResult

\* the result of an encrypt that panicked in a stage
EncPanic(stage, sc_len) ==
    [panic |-> TRUE, stage |-> stage, dst |-> ZeroBuf(CallerBufLen), n |-> 0,
     sc_len |-> sc_len]

\* the result of a decrypt that panicked in a stage
DecPanic(stage) ==
    [panic |-> TRUE, stage |-> stage, dst |-> ZeroBuf(CallerBufLen), n |-> 0]

\* let sc_len = self.sc.encrypt(&mut buf_sc, src)
EncryptSc(t) ==
    /\ pc[t] = "call" /\ src[t].op = "encrypt"
    /\ LET r == StraddlingCheckerboard_encrypt(
                    c.sc, ZeroBuf(Len(src[t].arg) * 3), src[t].arg)
       IN  IF r.panic
           THEN /\ pc' = [pc EXCEPT ![t] = "panicked"]
                /\ ct' = [ct EXCEPT ![t] = EncPanic("sc", 0)]
                /\ ar' = ar
           ELSE /\ pc' = [pc EXCEPT ![t] = "sc"]
                /\ ar' = [ar EXCEPT ![t].buf_sc = r.dst, ![t].sc_len = r.n]
                /\ ct' = ct
    /\ UNCHANGED <<km, c, src, pt>>

\* a first transposition that reads the buf_sc of thread 1, as if buf_sc
\* were one buffer of the instance
EncryptFirstTpShared(t) ==
    /\ pc[t] = "sc"
    /\ LET r == Transposition_encrypt(
                    c.firsttp, ZeroBuf(ar[t].sc_len),
                    Slice(ar[1].buf_sc, 0, Min(ar[t].sc_len, Len(ar[1].buf_sc))))
       IN  IF r.panic
           THEN /\ pc' = [pc EXCEPT ![t] = "panicked"]
                /\ ct' = [ct EXCEPT ![t] = EncPanic("firsttp", ar[t].sc_len)]
                /\ ar' = ar
           ELSE /\ pc' = [pc EXCEPT ![t] = "tp1"]
                /\ ar' = [ar EXCEPT ![t].buf_tp1 = r.dst, ![t].tp1_len = r.n]
                /\ ct' = ct
    /\ UNCHANGED <<km, c, src, pt>>

\* let tp1_len = self.firsttp.encrypt(&mut buf_tp1, &buf_sc[..sc_len])
EncryptFirstTp(t) ==
    /\ pc[t] = "sc"
    /\ LET r == Transposition_encrypt(
                    c.firsttp, ZeroBuf(ar[t].sc_len),
                    Slice(ar[t].buf_sc, 0, ar[t].sc_len))
       IN  IF r.panic
           THEN /\ pc' = [pc EXCEPT ![t] = "panicked"]
                /\ ct' = [ct EXCEPT ![t] = EncPanic("firsttp", ar[t].sc_len)]
                /\ ar' = ar
           ELSE /\ pc' = [pc EXCEPT ![t] = "tp1"]
                /\ ar' = [ar EXCEPT ![t].buf_tp1 = r.dst, ![t].tp1_len = r.n]
                /\ ct' = ct
    /\ UNCHANGED <<km, c, src, pt>>

\* self.secondtp.encrypt(dst, &buf_tp1[..tp1_len]); the locals are dropped
EncryptSecondTp(t) ==
    /\ pc[t] = "tp1"
    /\ LET r == IrregularTransposition_encrypt(
                    c.secondtp, ZeroBuf(CallerBufLen),
                    Slice(ar[t].buf_tp1, 0, ar[t].tp1_len))
       IN  IF r.panic
           THEN /\ pc' = [pc EXCEPT ![t] = "panicked"]
                /\ ct' = [ct EXCEPT ![t] = EncPanic("secondtp", ar[t].sc_len)]
           ELSE /\ pc' = [pc EXCEPT ![t] = "done"]
                /\ ct' = [ct EXCEPT ![t] =
                             [panic |-> FALSE, stage |-> "", dst |-> r.dst, n |-> r.n,
                              sc_len |-> ar[t].sc_len]]
    /\ ar' = [ar EXCEPT ![t] = NoLocals]
    /\ UNCHANGED <<km, c, src, pt>>

\* let tp2_len = self.secondtp.decrypt(&mut buf_tp2, src)
DecryptSecondTp(t) ==
    /\ pc[t] = "call" /\ src[t].op = "decrypt"
    /\ LET r == IrregularTransposition_decrypt(
                    c.secondtp, ZeroBuf(Len(src[t].arg)), src[t].arg)
       IN  IF r.panic
           THEN /\ pc' = [pc EXCEPT ![t] = "panicked"]
                /\ ct' = [ct EXCEPT ![t] = DecPanic("secondtp")]
                /\ ar' = ar
           ELSE /\ pc' = [pc EXCEPT ![t] = "tp2"]
                /\ ar' = [ar EXCEPT ![t].buf_tp2 = r.dst, ![t].tp2_len = r.n]
                /\ ct' = ct
    /\ UNCHANGED <<km, c, src, pt>>

\* let tp1_len = self.firsttp.decrypt(&mut buf_tp1, &buf_tp2[..tp2_len])
DecryptFirstTp(t) ==
    /\ pc[t] = "tp2"
    /\ LET r == Transposition_decrypt(
                    c.firsttp, ZeroBuf(ar[t].tp2_len),
                    Slice(ar[t].buf_tp2, 0, ar[t].tp2_len))
       IN  IF r.panic
           THEN /\ pc' = [pc EXCEPT ![t] = "panicked"]
                /\ ct' = [ct EXCEPT ![t] = DecPanic("firsttp")]
                /\ ar' = ar
           ELSE /\ pc' = [pc EXCEPT ![t] = "tp1d"]
                /\ ar' = [ar EXCEPT ![t].buf_tp1 = r.dst, ![t].tp1_len = r.n]
                /\ ct' = ct
    /\ UNCHANGED <<km, c, src, pt>>

\* self.sc.decrypt(dst, &buf_tp1[..tp1_len]); the locals are dropped
DecryptSc(t) ==
    /\ pc[t] = "tp1d"
    /\ LET r == StraddlingCheckerboard_decrypt(
                    c.sc, ZeroBuf(CallerBufLen), Slice(ar[t].buf_tp1, 0, ar[t].tp1_len))
       IN  /\ pc' = [pc EXCEPT ![t] = "done"]
           /\ ct' = [ct EXCEPT ![t] =
                        [panic |-> FALSE, stage |-> "", dst |-> r.dst, n |-> r.n]]
    /\ ar' = [ar EXCEPT ![t] = NoLocals]
    /\ UNCHANGED <<km, c, src, pt>>

ConcNext ==
    \E t \in Threads :
        \/ EncryptSc(t)
        \/ EncryptFirstTp(t)
        \/ EncryptSecondTp(t)
        \/ DecryptSecondTp(t)
        \/ DecryptFirstTp(t)
        \/ DecryptSc(t)

SpecConcurrent == ConcInit /\ [][ConcNext]_vars

\* the result of the call of thread t when it runs alone
Alone(t) ==
    IF src[t].op = "encrypt"
    THEN VicCipher_encrypt(c, ZeroBuf(CallerBufLen), src[t].arg)
    ELSE VicCipher_decrypt(c, ZeroBuf(CallerBufLen), src[t].arg)

\* C15: with two calls in flight on one instance, under every interleaving
\* of their stages each call that has returned (or aborted) has the result
\* it has when it runs alone, and the instance is as constructed
C15_ConcurrentCalls ==
    /\ c = VicCipher_new(km.persn, km.ind, km.phrase, km.imsg)
    /\ \A t \in Threads :
           pc[t] \in {"done", "panicked"} => ct[t] = Alone(t)

\* thread 1 has returned the ciphertext of "AJ1" while thread 2, encrypting
\* "HELLOWORLD", is between its checkerboard and its first transposition
C15_Witness ==
    /\ km = KmFixture
    /\ pc[1] = "done" /\ src[1] = [op |-> "encrypt", arg |-> <<65, 74, 49>>]
    /\ Written(ct[1]) = CtAJ1
    /\ pc[2] = "sc" /\ src[2].arg = PtHELLOWORLD
    /\ ar[2].sc_len > 0

-----------------------------------------------------------------------------
(* chaocipher.rs: Chaocipher.  The working alphabets are in a RefCell that  *)
(* encrypt and decrypt borrow mutably through &self.                        *)

\* "ABCDEFGHIJKLMNOPQRSTUVWXYZ"
ALPHABET == [i \in 1..26 |-> 64 + i]

ZENITH == 0
NADIR == 13

\* slice::rotate_left(n), n <= len
rotate_left(a, n) ==
    IF a = <<>> THEN a ELSE [i \in 1..Len(a) |-> a[((i - 1 + n) % Len(a)) + 1]]

\* a[lo..hi].rotate_left(n)
rotate_slice_left(a, lo, hi, n) ==
    SubSeq(a, 1, lo) \o rotate_left(Slice(a, lo, hi), n) \o SubSeq(a, hi + 1, Len(a))

\* position(...).unwrap_or(0)
position_or_0(a, ch) == IF Position(a, ch) < 0 THEN 0 ELSE Position(a, ch)

\* Chaocipher::new
Chaocipher_new(pkey, ckey) ==
    IF Len(pkey) # Len(ALPHABET) \/ Len(ckey) # Len(ALPHABET)
    THEN [ok |-> FALSE, err |-> "bad alphabet length"]
    ELSE [ok |-> TRUE, pkey |-> pkey, ckey |-> ckey, state |-> [pw |-> pkey, cw |-> ckey]]

\* Chaocipher::lshift_n
lshift_n(a, n) == IF a = <<>> THEN a ELSE rotate_left(a, n % Len(a))

\* Chaocipher::advance
advance(state, idx) ==
    LET cw1 == lshift_n(state.cw, idx)
        cw2 == rotate_slice_left(cw1, ZENITH + 1, NADIR + 1, 1)
        cw3 == [cw2 EXCEPT ![NADIR + 1] = At(cw1, ZENITH + 1)]
        pw1 == lshift_n(state.pw, idx + 1)
        pw2 == rotate_slice_left(pw1, ZENITH + 2, NADIR + 1, 1)
        pw3 == [pw2 EXCEPT ![NADIR + 1] = At(pw1, ZENITH + 2)]
    IN  [pw |-> pw3, cw |-> cw3]

\* Chaocipher::encode_both: the byte returned and the state left behind
encode_both(state, is_encrypt, ch) ==
    LET idx == IF is_encrypt THEN position_or_0(state.pw, ch)
               ELSE position_or_0(state.cw, ch)
        out == IF is_encrypt THEN At(state.cw, idx) ELSE At(state.pw, idx)
    IN  [out |-> out, state |-> advance(state, idx)]

\* Chaocipher::reset
Chaocipher_reset(self) == [pw |-> self.pkey, cw |-> self.ckey]

\* the for loop of Chaocipher::encrypt / decrypt from byte i on; dst[i] = ...
\* panics when dst is shorter than src, after encode_both has run
RECURSIVE chao_loop(_, _, _, _, _)
chao_loop(is_encrypt, s, i, dst, state) ==
    IF i >= Len(s) THEN [panic |-> FALSE, dst |-> dst, n |-> Len(s), state |-> state]
    ELSE LET e == encode_both(state, is_encrypt, At(s, i))
         IN  IF i >= Len(dst)
             THEN [panic |-> TRUE, dst |-> dst, n |-> 0, state |-> e.state]
             ELSE chao_loop(is_encrypt, s, i + 1, [dst EXCEPT ![i + 1] = e.out], e.state)

\* Chaocipher::encrypt
Chaocipher_encrypt(self, dst, s) == chao_loop(TRUE, s, 0, dst, Chaocipher_reset(self))

\* Chaocipher::decrypt
Chaocipher_decrypt(self, dst, s) == chao_loop(FALSE, s, 0, dst, Chaocipher_reset(self))

-----------------------------------------------------------------------------
(* solitaire.rs: Solitaire.  The working deck is in a RefCell; the decks    *)
(* built by new_unkeyed and new_with_passphrase hold the cards 1..54 once   *)
(* each, so position(joker).unwrap() finds its card.                        *)

\* u8::is_ascii_alphabetic and u8::to_ascii_uppercase
is_ascii_alphabetic(b) == (b >= 65 /\ b <= 90) \/ (b >= 97 /\ b <= 122)
to_ascii_uppercase(b) == IF b >= 97 /\ b <= 122 THEN b - 32 ELSE b

\* ch.to_ascii_uppercase() - b'A' + 1
letter_value(ch) == to_ascii_uppercase(ch) - 65 + 1

\* Vec::insert(i, card)
Insert(deck, i, card) == SubSeq(deck, 1, i) \o <<card>> \o SubSeq(deck, i + 1, Len(deck))

\* Vec::swap(i, j)
Swap(deck, i, j) == [deck EXCEPT ![i + 1] = At(deck, j), ![j + 1] = At(deck, i)]

\* Solitaire::move_joker
RECURSIVE move_joker(_, _, _)
move_joker(deck, joker, n) ==
    IF n = 0 THEN deck
    ELSE LET pos == Position(deck, joker)
         IN  IF pos = 53
             THEN move_joker(Insert(Remove(deck, 53), 1, At(deck, 53)), joker, n - 1)
             ELSE move_joker(Swap(deck, pos, pos + 1), joker, n - 1)

\* Solitaire::count_cut
count_cut(deck, count) ==
    IF count < 53
    THEN Slice(deck, count, 53) \o Slice(deck, 0, count) \o <<At(deck, 53)>>
    ELSE deck

\* if v > 52 { 53 } else { v }
joker_value(v) == IF v > 52 THEN 53 ELSE v

\* step 3 of advance_deck: the triple cut around the jokers at top_j < bot_j
triple_cut_at(deck, top_j, bot_j) ==
    Slice(deck, bot_j + 1, 54) \o Slice(deck, top_j, bot_j + 1) \o Slice(deck, 0, top_j)

triple_cut(deck) ==
    IF Position(deck, 53) < Position(deck, 54)
    THEN triple_cut_at(deck, Position(deck, 53), Position(deck, 54))
    ELSE triple_cut_at(deck, Position(deck, 54), Position(deck, 53))

\* step 4 of advance_deck: the count cut by the value of the bottom card
bottom_cut(deck) == count_cut(deck, joker_value(At(deck, 53)))

\* Solitaire::advance_deck
advance_deck(deck) ==
    bottom_cut(triple_cut(move_joker(move_joker(deck, 53, 1), 54, 2)))

\* Solitaire::step: the keystream value and the deck left behind
RECURSIVE step(_)

\* step 5 without the reduction of the cards 27..52 to 1..26
step_card_unreduced(deck, output_card) ==
    IF output_card <= 52 THEN [k |-> output_card, deck |-> deck] ELSE step(deck)

\* step 5 of step: the output card decides between a value and another round
step_card(deck, output_card) ==
    IF output_card <= 52
    THEN [k |-> IF output_card > 26 THEN output_card - 26 ELSE output_card, deck |-> deck]
    ELSE step(deck)

step_output(deck) == step_card(deck, At(deck, joker_value(At(deck, 0))))

step(deck) == step_output(advance_deck(deck))

\* (1..=54).collect()
UnkeyedDeck == [i \in 1..54 |-> i]

\* the for loop of Solitaire::new_with_passphrase from character i on
RECURSIVE passphrase_loop(_, _, _)
passphrase_loop(passphrase, i, deck) ==
    IF i >= Len(passphrase) THEN deck
    ELSE IF ~is_ascii_alphabetic(At(passphrase, i))
         THEN passphrase_loop(passphrase, i + 1, deck)
         ELSE LET cut == count_cut(advance_deck(deck), letter_value(At(passphrase, i)))
              IN  IF cut = <<>> THEN cut ELSE passphrase_loop(passphrase, i + 1, cut)

\* Solitaire::new; assert_eq!(deck.len(), 54) panics for any other length
Solitaire_new(deck) ==
    IF Len(deck) # 54
    THEN [ok |-> FALSE, panic |-> TRUE, err |-> "assertion failed"]
    ELSE [ok |-> TRUE, initial_deck |-> deck, deck |-> deck]

\* Solitaire::new_with_passphrase
Solitaire_new_with_passphrase(passphrase) ==
    Solitaire_new(passphrase_loop(passphrase, 0, UnkeyedDeck))

\* Solitaire::reset
Solitaire_reset(self) == self.initial_deck

\* the letter written for the letter value v under the keystream value k
sol_char(is_encrypt, v, k) ==
    IF is_encrypt THEN (((v + k - 1) % 26) + 1) + 65 - 1
    ELSE (IF v > k THEN v - k ELSE v + 26 - k) + 65 - 1

\* the for loop of Solitaire::encrypt / decrypt from byte i on; the key
\* stream step runs before the write to dst[i]
RECURSIVE sol_loop(_, _, _, _, _)

\* dst[i] = out, then the rest of the loop
sol_write(is_encrypt, s, i, dst, out, deck) ==
    IF i >= Len(dst)
    THEN [panic |-> TRUE, dst |-> dst, n |-> 0, deck |-> deck]
    ELSE sol_loop(is_encrypt, s, i + 1, [dst EXCEPT ![i + 1] = out], deck)

\* the alphabetic branch, st the result of step
sol_letter(is_encrypt, s, i, dst, st) ==
    sol_write(is_encrypt, s, i, dst,
              sol_char(is_encrypt, letter_value(At(s, i)), st.k), st.deck)

sol_loop(is_encrypt, s, i, dst, deck) ==
    IF i >= Len(s) THEN [panic |-> FALSE, dst |-> dst, n |-> Len(s), deck |-> deck]
    ELSE IF is_ascii_alphabetic(At(s, i))
         THEN sol_letter(is_encrypt, s, i, dst, step(deck))
         ELSE sol_write(is_encrypt, s, i, dst, At(s, i), deck)

\* Solitaire::encrypt
Solitaire_encrypt(self, dst, s) == sol_loop(TRUE, s, 0, dst, Solitaire_reset(self))

\* Solitaire::decrypt
Solitaire_decrypt(self, dst, s) == sol_loop(FALSE, s, 0, dst, Solitaire_reset(self))

-----------------------------------------------------------------------------
(* wheatstone.rs: Wheatstone.  The positions of the two wheels are in a     *)
(* RefCell; the wheels aplw and actw are fixed at construction.             *)

LEN_PL == Len(ALPHABET) + 1
LEN_CT == Len(ALPHABET)

\* Wheatstone::new
Wheatstone_new(start, pkey, ckey) ==
    IF pkey = <<>> \/ ckey = <<>>
    THEN [ok |-> FALSE, err |-> "keys can not be empty"]
    ELSE LET aplw == <<43>> \o shuffle(pkey, ALPHABET)
             actw == shuffle(ckey, ALPHABET)
         IN  [ok |-> TRUE, aplw |-> aplw, actw |-> actw, start |-> start,
              state |-> [curpos |-> 0, ctpos |-> position_or_0(actw, start)]]

\* Wheatstone::encode: the byte returned and the state left behind;
\* actw[ctpos] panics when the wheel is shorter than ctpos + 1
Wheatstone_encode(self, state, ch) ==
    LET a == position_or_0(self.aplw, ch)
        off == IF a <= state.curpos THEN (a + LEN_PL) - state.curpos
               ELSE a - state.curpos
        ctpos == (state.ctpos + off) % LEN_CT
    IN  [panic |-> ctpos >= Len(self.actw),
         out |-> IF ctpos >= Len(self.actw) THEN 0 ELSE At(self.actw, ctpos),
         state |-> [curpos |-> a, ctpos |-> ctpos]]

\* Wheatstone::decode
Wheatstone_decode(self, state, ch) ==
    LET a == position_or_0(self.actw, ch)
        off == IF a <= state.ctpos THEN (a + LEN_CT) - state.ctpos
               ELSE a - state.ctpos
        curpos == (state.curpos + off) % LEN_PL
    IN  [panic |-> curpos >= Len(self.aplw),
         out |-> IF curpos >= Len(self.aplw) THEN 0 ELSE At(self.aplw, curpos),
         state |-> [curpos |-> curpos, ctpos |-> a]]

\* a reset that leaves the wheels where the last call left them
Wheatstone_keep(self) == self.state

\* Wheatstone::reset
Wheatstone_reset(self) ==
    [curpos |-> 0, ctpos |-> position_or_0(self.actw, self.start)]

\* the for loop of Wheatstone::encrypt / decrypt from byte i on
RECURSIVE wh_loop(_, _, _, _, _, _)
wh_loop(self, is_encrypt, s, i, dst, state) ==
    IF i >= Len(s) THEN [panic |-> FALSE, dst |-> dst, n |-> Len(s), state |-> state]
    ELSE LET e == IF is_encrypt THEN Wheatstone_encode(self, state, At(s, i))
                  ELSE Wheatstone_decode(self, state, At(s, i))
         IN  IF e.panic \/ i >= Len(dst)
             THEN [panic |-> TRUE, dst |-> dst, n |-> 0, state |-> e.state]
             ELSE wh_loop(self, is_encrypt, s, i + 1, [dst EXCEPT ![i + 1] = e.out], e.state)

\* Wheatstone::encrypt
Wheatstone_encrypt(self, dst, s) == wh_loop(self, TRUE, s, 0, dst, Wheatstone_reset(self))

\* Wheatstone::decrypt
Wheatstone_decrypt(self, dst, s) == wh_loop(self, FALSE, s, 0, dst, Wheatstone_reset(self))

-----------------------------------------------------------------------------
(* Repeated calls on one Chaocipher, Solitaire or Wheatstone.  c holds the  *)
(* instance with the contents of its RefCell as the last call left them, ar *)
(* the log of the calls.                                                    *)

\* KEY_PLAIN and KEY_CIPHER of the Chaocipher tests
KEY_PLAIN ==
    <<80, 84, 76, 78, 66, 81, 68, 69, 79, 89, 83, 70, 65, 86, 90, 75, 71, 74, 82, 73,
      72, 87, 88, 85, 77, 67>>
KEY_CIPHER ==
    <<72, 88, 85, 67, 90, 86, 65, 77, 68, 83, 76, 75, 80, 69, 70, 74, 82, 73, 71, 84,
      87, 79, 66, 78, 89, 81>>

\* KEY1 = "CIPHER" and KEY2 = "MACHINE" of the Wheatstone tests
KEY1 == <<67, 73, 80, 72, 69, 82>>
KEY2 == <<77, 65, 67, 72, 73, 78, 69>>

PeerKeys ==
    {[kind |-> "chaocipher", pkey |-> KEY_PLAIN, ckey |-> KEY_CIPHER],
     [kind |-> "chaocipher", pkey |-> ALPHABET, ckey |-> ALPHABET],
     [kind |-> "solitaire", passphrase |-> <<>>],
     [kind |-> "solitaire", passphrase |-> <<102>>],
     [kind |-> "wheatstone", start |-> 77, pkey |-> KEY1, ckey |-> KEY2],
     [kind |-> "wheatstone", start |-> 65, pkey |-> KEY1, ckey |-> KEY2]}

\* "AB" and "WEL"
PeerArgs == {<<65, 66>>, <<87, 69, 76>>}

PeerInit ==
    /\ pc = "start"
    /\ km \in PeerKeys
    /\ c = NoCipher
    /\ src = <<>>
    /\ ct = NoResult
    /\ pt = NoResult
    /\ ar = <<>>

\* what the caller sees of a call
Returned(r) == [panic |-> r.panic, dst |-> r.dst, n |-> r.n]

\* Chaocipher::new(km.pkey, km.ckey)
ChaoNew ==
    /\ pc = "start" /\ km.kind = "chaocipher"
    /\ c' = Chaocipher_new(km.pkey, km.ckey)
    /\ pc' = IF c'.ok THEN "ready" ELSE "failed"
    /\ UNCHANGED <<km, src, ct, pt, ar>>

\* cipher.encrypt(&mut dst, src) with dst of src.len() bytes
ChaoEncrypt ==
    /\ pc = "ready" /\ km.kind = "chaocipher" /\ Len(ar) < MaxCalls
    /\ src' \in PeerArgs
    /\ ct' = Returned(Chaocipher_encrypt(c, ZeroBuf(Len(src')), src'))
    /\ c' = [c EXCEPT !.state = Chaocipher_encrypt(c, ZeroBuf(Len(src')), src').state]
    /\ ar' = Append(ar, [op |-> "encrypt", arg |-> src', res |-> ct'])
    /\ pc' = IF ct'.panic THEN "panicked" ELSE "ready"
    /\ UNCHANGED <<km, pt>>

\* cipher.decrypt(&mut dst, src)
ChaoDecrypt ==
    /\ pc = "ready" /\ km.kind = "chaocipher" /\ Len(ar) < MaxCalls
    /\ src' \in PeerArgs
    /\ pt' = Returned(Chaocipher_decrypt(c, ZeroBuf(Len(src')), src'))
    /\ c' = [c EXCEPT !.state = Chaocipher_decrypt(c, ZeroBuf(Len(src')), src').state]
    /\ ar' = Append(ar, [op |-> "decrypt", arg |-> src', res |-> pt'])
    /\ pc' = IF pt'.panic THEN "panicked" ELSE "ready"
    /\ UNCHANGED <<km, ct>>

\* Solitaire::new_with_passphrase(km.passphrase)
SolNew ==
    /\ pc = "start" /\ km.kind = "solitaire"
    /\ c' = Solitaire_new_with_passphrase(km.passphrase)
    /\ pc' = IF c'.ok THEN "ready" ELSE "panicked"
    /\ UNCHANGED <<km, src, ct, pt, ar>>

SolEncrypt ==
    /\ pc = "ready" /\ km.kind = "solitaire" /\ Len(ar) < MaxCalls
    /\ src' \in PeerArgs
    /\ ct' = Returned(Solitaire_encrypt(c, ZeroBuf(Len(src')), src'))
    /\ c' = [c EXCEPT !.deck = Solitaire_encrypt(c, ZeroBuf(Len(src')), src').deck]
    /\ ar' = Append(ar, [op |-> "encrypt", arg |-> src', res |-> ct'])
    /\ pc' = IF ct'.panic THEN "panicked" ELSE "ready"
    /\ UNCHANGED <<km, pt>>

SolDecrypt ==
    /\ pc = "ready" /\ km.kind = "solitaire" /\ Len(ar) < MaxCalls
    /\ src' \in PeerArgs
    /\ pt' = Returned(Solitaire_decrypt(c, ZeroBuf(Len(src')), src'))
    /\ c' = [c EXCEPT !.deck = Solitaire_decrypt(c, ZeroBuf(Len(src')), src').deck]
    /\ ar' = Append(ar, [op |-> "decrypt", arg |-> src', res |-> pt'])
    /\ pc' = IF pt'.panic THEN "panicked" ELSE "ready"
    /\ UNCHANGED <<km, ct>>

\* Wheatstone::new(km.start, km.pkey, km.ckey)
WheatNew ==
    /\ pc = "start" /\ km.kind = "wheatstone"
    /\ c' = Wheatstone_new(km.start, km.pkey, km.ckey)
    /\ pc' = IF c'.ok THEN "ready" ELSE "failed"
    /\ UNCHANGED <<km, src, ct, pt, ar>>

WheatEncrypt ==
    /\ pc = "ready" /\ km.kind = "wheatstone" /\ Len(ar) < MaxCalls
    /\ src' \in PeerArgs
    /\ ct' = Returned(Wheatstone_encrypt(c, ZeroBuf(Len(src')), src'))
    /\ c' = [c EXCEPT !.state = Wheatstone_encrypt(c, ZeroBuf(Len(src')), src').state]
    /\ ar' = Append(ar, [op |-> "encrypt", arg |-> src', res |-> ct'])
    /\ pc' = IF ct'.panic THEN "panicked" ELSE "ready"
    /\ UNCHANGED <<km, pt>>

WheatDecrypt ==
    /\ pc = "ready" /\ km.kind = "wheatstone" /\ Len(ar) < MaxCalls
    /\ src' \in PeerArgs
    /\ pt' = Returned(Wheatstone_decrypt(c, ZeroBuf(Len(src')), src'))
    /\ c' = [c EXCEPT !.state = Wheatstone_decrypt(c, ZeroBuf(Len(src')), src').state]
    /\ ar' = Append(ar, [op |-> "decrypt", arg |-> src', res |-> pt'])
    /\ pc' = IF pt'.panic THEN "panicked" ELSE "ready"
    /\ UNCHANGED <<km, ct>>

PeerNext ==
    \/ ChaoNew
    \/ ChaoEncrypt
    \/ ChaoDecrypt
    \/ SolNew
    \/ SolEncrypt
    \/ SolDecrypt
    \/ WheatNew
    \/ WheatEncrypt
    \/ WheatDecrypt

SpecPeers == PeerInit /\ [][PeerNext]_vars

\* a freshly constructed instance with the keys k
Fresh(k) ==
    IF k.kind = "chaocipher" THEN Chaocipher_new(k.pkey, k.ckey)
    ELSE IF k.kind = "solitaire" THEN Solitaire_new_with_passphrase(k.passphrase)
    ELSE Wheatstone_new(k.start, k.pkey, k.ckey)

\* what the call op(x) returns on the instance self
CallOn(kind, self, op, x) ==
    IF kind = "chaocipher"
    THEN IF op = "encrypt" THEN Returned(Chaocipher_encrypt(self, ZeroBuf(Len(x)), x))
         ELSE Returned(Chaocipher_decrypt(self, ZeroBuf(Len(x)), x))
    ELSE IF kind = "solitaire"
    THEN IF op = "encrypt" THEN Returned(Solitaire_encrypt(self, ZeroBuf(Len(x)), x))
         ELSE Returned(Solitaire_decrypt(self, ZeroBuf(Len(x)), x))
    ELSE IF op = "encrypt" THEN Returned(Wheatstone_encrypt(self, ZeroBuf(Len(x)), x))
         ELSE Returned(Wheatstone_decrypt(self, ZeroBuf(Len(x)), x))

\* C16: after any sequence of earlier encrypt/decrypt calls on a Chaocipher,
\* Solitaire or Wheatstone, a call returns the same bytes as on a freshly
\* constructed instance with the same keys
C16_ResetBeforeEveryCall ==
    (pc = "ready" /\ ar # <<>>) =>
        LET fresh == Fresh(km)
            last  == ar[Len(ar)]
        IN  /\ fresh.ok
            /\ last.res = CallOn(km.kind, fresh, last.op, last.arg)
            /\ \A i, j \in 1..Len(ar) :
                   (ar[i].op = ar[j].op /\ ar[i].arg = ar[j].arg)
                       => ar[i].res = ar[j].res

\* a Wheatstone whose wheels were left away from the start position by an
\* encrypt of "AB" and a decrypt of "WEL" has encrypted "AB" again
C16_Witness ==
    /\ pc = "ready" /\ km.kind = "wheatstone"
    /\ Len(ar) = 3
    /\ ar[1].op = "encrypt" /\ ar[1].arg = <<65, 66>>
    /\ ar[2].op = "decrypt" /\ ar[2].arg = <<87, 69, 76>>
    /\ ar[3].op = "encrypt" /\ ar[3].arg = <<65, 66>>
    /\ c.state # Wheatstone_reset(c)

-----------------------------------------------------------------------------
(* Wheatstone: new, encrypt, decrypt of the bytes written. *)

\* PLAIN_TXT of the Wheatstone tests
PLAIN_TXT ==
    <<67, 72, 65, 82, 76, 69, 83, 43, 87, 72, 69, 65, 84, 83, 84, 79, 78, 69, 43, 72,
      65, 68, 43, 65, 43, 82, 69, 77, 65, 82, 75, 65, 66, 76, 89, 43, 70, 69, 82, 84,
      73, 76, 69, 43, 77, 73, 78, 68>>

\* start letters 'M' and 'A'
WsStarts == {77, 65}

\* "CIPHER", "Z" and "a"
WsPkeys == {KEY1, <<90>>, <<97>>}

\* "MACHINE" and "b"
WsCkeys == {KEY2, <<98>>}

\* plaintext symbols '+', 'A', 'C', 'Z'
WsPtBytes == {43, 65, 67, 90}

WsPlaintexts == SeqsUpTo(WsPtBytes, MaxPtLen) \cup {PLAIN_TXT}

WsInit ==
    /\ pc = "start"
    /\ km \in [start : WsStarts, pkey : WsPkeys, ckey : WsCkeys]
    /\ c = NoCipher
    /\ src \in WsPlaintexts
    /\ ct = NoResult
    /\ pt = NoResult
    /\ ar = NoResult

\* Wheatstone::new(km.start, km.pkey, km.ckey)
WsNew ==
    /\ pc = "start"
    /\ c' = Wheatstone_new(km.start, km.pkey, km.ckey)
    /\ pc' = IF c'.ok THEN "ready" ELSE "failed"
    /\ UNCHANGED <<km, src, ct, pt, ar>>

\* c.encrypt(&mut dst, src) with dst of src.len() bytes
WsEncrypt ==
    /\ pc = "ready"
    /\ ct' = Returned(Wheatstone_encrypt(c, ZeroBuf(Len(src)), src))
    /\ c' = [c EXCEPT !.state = Wheatstone_encrypt(c, ZeroBuf(Len(src)), src).state]
    /\ pc' = IF ct'.panic THEN "panicked" ELSE "encrypted"
    /\ UNCHANGED <<km, src, pt, ar>>

\* c.decrypt(&mut dst, &ct) with dst of ct.len() bytes
WsDecrypt ==
    /\ pc = "encrypted"
    /\ pt' = Returned(Wheatstone_decrypt(c, ZeroBuf(ct.n), Written(ct)))
    /\ c' = [c EXCEPT !.state = Wheatstone_decrypt(c, ZeroBuf(ct.n), Written(ct)).state]
    /\ pc' = IF pt'.panic THEN "panicked" ELSE "decrypted"
    /\ UNCHANGED <<km, src, ct, ar>>

WsNext ==
    \/ WsNew
    \/ WsEncrypt
    \/ WsDecrypt

SpecWheatstone == WsInit /\ [][WsNext]_vars

\* the 27 symbols of the plaintext wheel: A-Z and '+'
WheelSymbols == Range(ALPHABET) \cup {43}

\* no two adjacent symbols of s are equal
NoDoubles(s) == \A i \in 1..(Len(s) - 1) : s[i] # s[i + 1]

\* C17: for every Wheatstone cipher (any start letter, any non-empty keys)
\* and every plaintext over A-Z and '+' in which no two adjacent symbols are
\* equal, decrypt(encrypt(plaintext)) = plaintext
C17_WheatstoneRoundTrip ==
    (Range(src) \subseteq WheelSymbols /\ NoDoubles(src)) =>
        /\ pc # "panicked"
        /\ pc = "decrypted" => Written(pt) = src

\* what holds: under keys of upper case letters the round trip holds for the
\* plaintexts without doubles that do not start with '+'
C17_RoundTripLetterKeys ==
    (/\ Range(km.pkey) \cup Range(km.ckey) \subseteq Range(ALPHABET)
     /\ Range(src) \subseteq WheelSymbols /\ NoDoubles(src)
     /\ (src # <<>> => src[1] # 43))
        => /\ pc # "panicked"
           /\ pc = "decrypted" => Written(pt) = src

\* under the plaintext key "a" the wheel has 28 symbols and "Z" came back as
\* another symbol
C17_Witness ==
    /\ pc = "decrypted"
    /\ km.pkey = <<97>> /\ km.ckey = KEY2
    /\ Len(c.aplw) = 28
    /\ src = <<90>>
    /\ Written(pt) # src

-----------------------------------------------------------------------------
(* caesar.rs: CaesarCipher.  The HashMaps enc and dec are functions whose   *)
(* domain is the set of keys inserted.                                      *)

ALPHABET_SIZE == Len(ALPHABET)

\* HashMap::insert(k, v)
MapInsert(m, k, v) == (k :> v) @@ m

\* HashMap::get(&ch).unwrap_or(&ch)
get_or(m, ch) == IF ch \in DOMAIN m THEN m[ch] ELSE ch

\* the for loop of expand_key from letter i on; maps = [enc, dec]
RECURSIVE caesar_expand_loop(_, _, _)
caesar_expand_loop(key, i, maps) ==
    IF i >= Len(ALPHABET) THEN maps
    ELSE LET transform == (i + key) % ALPHABET_SIZE
         IN  caesar_expand_loop(key, i + 1,
                 [enc |-> MapInsert(maps.enc, At(ALPHABET, i), At(ALPHABET, transform)),
                  dec |-> MapInsert(maps.dec, At(ALPHABET, transform), At(ALPHABET, i))])

\* caesar.rs expand_key(key, &mut enc, &mut dec)
caesar_expand_key(key, enc, dec) == caesar_expand_loop(key, 0, [enc |-> enc, dec |-> dec])

\* an empty HashMap
EmptyMap == [k \in {} |-> 0]

\* CaesarCipher::new(key: i32); key as u8 keeps the low 8 bits
CaesarCipher_new(key) ==
    LET key_u8 == key % U8
        maps == caesar_expand_key(key_u8, EmptyMap, EmptyMap)
    IN  [ok |-> TRUE, key |-> key_u8, enc |-> maps.enc, dec |-> maps.dec]

\* the for loop of CaesarCipher::encrypt / decrypt over the map m
RECURSIVE caesar_loop(_, _, _, _)
caesar_loop(m, s, i, dst) ==
    IF i >= Len(s) THEN [panic |-> FALSE, dst |-> dst, n |-> Len(s)]
    ELSE IF i >= Len(dst) THEN [panic |-> TRUE, dst |-> dst, n |-> 0]
    ELSE caesar_loop(m, s, i + 1, [dst EXCEPT ![i + 1] = get_or(m, At(s, i))])

\* CaesarCipher::encrypt
CaesarCipher_encrypt(self, dst, s) == caesar_loop(self.enc, s, 0, dst)

\* CaesarCipher::decrypt
CaesarCipher_decrypt(self, dst, s) == caesar_loop(self.dec, s, 0, dst)

\* keys of the tests, keys around 26 and around 256, and i32::MAX
CaesarKeys == {0, 3, 4, 13, 25, 26, 27, 29, 255, 256, 259, 282, 2147483647}

\* plaintext bytes 'A', 'X', 'Z', 'a', ' '
CaesarPtBytes == {65, 88, 90, 97, 32}

\* "COUCOU"
PtCOUCOU == <<67, 79, 85, 67, 79, 85>>

CaesarInit ==
    /\ pc = "start"
    /\ km \in [key : CaesarKeys]
    /\ c = NoCipher
    /\ src \in SeqsUpTo(CaesarPtBytes, MaxPtLen) \cup {PtCOUCOU}
    /\ ct = NoResult
    /\ pt = NoResult
    /\ ar = NoResult

\* CaesarCipher::new(km.key)
CaesarNew ==
    /\ pc = "start"
    /\ c' = CaesarCipher_new(km.key)
    /\ pc' = "ready"
    /\ UNCHANGED <<km, src, ct, pt, ar>>

\* c.encrypt(&mut cipher, plain) with cipher of plain.len() bytes
CaesarEncrypt ==
    /\ pc = "ready"
    /\ ct' = CaesarCipher_encrypt(c, ZeroBuf(Len(src)), src)
    /\ pc' = IF ct'.panic THEN "panicked" ELSE "encrypted"
    /\ UNCHANGED <<km, c, src, pt, ar>>

\* c.decrypt(&mut plain, cipher)
CaesarDecrypt ==
    /\ pc = "encrypted"
    /\ pt' = CaesarCipher_decrypt(c, ZeroBuf(ct.n), Written(ct))
    /\ pc' = IF pt'.panic THEN "panicked" ELSE "decrypted"
    /\ UNCHANGED <<km, c, src, ct, ar>>

CaesarNext ==
    \/ CaesarNew
    \/ CaesarEncrypt
    \/ CaesarDecrypt

SpecCaesar == CaesarInit /\ [][CaesarNext]_vars

\* the letter k positions further in the alphabet, wrapping around; any other
\* byte unchanged
Shifted(b, k) == IF b \in Range(ALPHABET) THEN 65 + ((b - 65 + k) % 26) ELSE b

\* the table and the calls shift by k
ShiftsBy(k) ==
    /\ pc \in {"ready", "encrypted", "decrypted"} =>
           \A b \in Range(ALPHABET) :
               /\ get_or(c.enc, b) = Shifted(b, k)
               /\ get_or(c.dec, Shifted(b, k)) = b
    /\ pc \in {"encrypted", "decrypted"} =>
           /\ ct.n = Len(src)
           /\ \A i \in 1..Len(src) : ct.dst[i] = Shifted(src[i], k)
    /\ pc = "decrypted" => Written(pt) = src

\* C18: for every non-negative key, including keys larger than 25,
\* CaesarCipher::new(key) maps each letter A-Z to the letter (key mod 26)
\* positions further, leaves every other byte unchanged, and decrypt is the
\* inverse mapping
C18_KeyReduction == km.key >= 0 => ShiftsBy(km.key % 26)

\* what holds: the shift is ((key mod 256) mod 26), which is key mod 26 for
\* the keys up to 255
C18_KeyReductionU8 == ShiftsBy((km.key % U8) % 26)

\* under the key 256 "AXZ" was encrypted to itself, where the claim has a
\* shift of 256 mod 26 = 22
C18_Witness ==
    /\ pc = "encrypted"
    /\ km.key = 256
    /\ src = <<65, 88, 90>>
    /\ Written(ct) = src
    /\ Shifted(65, km.key % 26) = 87

-----------------------------------------------------------------------------
(* The readout of the two transpositions, as the specification states it.   *)

\* the ranks of the columns of key, column c at index c + 1
ColumnRanks(key) == [i \in 1..Len(key) |-> RankOf(key, i - 1)]

\* the column whose rank is i
ColumnOfRank(ranks, i) == CHOOSE col \in 0..(Len(ranks) - 1) : At(ranks, col) = i

\* the number of rows r with r * klen + col < n
RowsOfColumn(klen, col, n) == IF col >= n THEN 0 ELSE ((n - 1 - col) \div klen) + 1

\* the cells of column col, top to bottom, of s written row-major into klen
\* columns
ColumnCells(s, klen, col) ==
    [r \in 1..RowsOfColumn(klen, col, Len(s)) |-> At(s, (r - 1) * klen + col)]

\* the columns of rank lo..hi-1, one after the other
RECURSIVE ReadoutRange(_, _, _, _)
ReadoutRange(ranks, s, lo, hi) ==
    IF hi <= lo THEN <<>>
    ELSE IF hi = lo + 1 THEN ColumnCells(s, Len(ranks), ColumnOfRank(ranks, lo))
    ELSE LET mid == (lo + hi) \div 2
         IN  ReadoutRange(ranks, s, lo, mid) \o ReadoutRange(ranks, s, mid, hi)

ReadoutByRank(key, s) == ReadoutRange(ColumnRanks(key), s, 0, Len(key))

\* how often the byte v occurs in s
Occurrences(s, v) == Cardinality({i \in 1..Len(s) : s[i] = v})

\* a is a permutation of b
IsPermutationOf(a, b) ==
    /\ Len(a) = Len(b)
    /\ \A v \in Range(a) \cup Range(b) : Occurrences(a, v) = Occurrences(b, v)

\* the output of encrypt is the columns in rank order and a permutation of src
RegularReadout ==
    pc \in {"encrypted", "decrypted"} =>
        /\ ~ct.panic
        /\ ct.n = Len(src)
        /\ Written(ct) = ReadoutByRank(km.key, src)
        /\ IsPermutationOf(Written(ct), src)

\* C19: Transposition.encrypt(src) is the concatenation, for i = 0, 1, ...,
\* len(key)-1, of the cells of the column whose rank is i, top to bottom,
\* where src is written row-major into len(key) columns and column c has a
\* cell in row r exactly when r*len(key) + c < len(src); the output is a
\* permutation of src of the same length.
C19_RegularReadout == RegularReadout

\* what holds of Transposition.encrypt: the same for every key of at most 256
\* bytes
C19_RegularReadoutUpTo256 == Len(km.key) <= U8 => RegularReadout

\* under the 257-byte key the column of rank 256, the first, is read out
\* first and once more in place of the last, and the second column never:
\* the output holds the byte 'B' twice where src holds it once
C19_Witness ==
    /\ pc = "encrypted"
    /\ km.key = LongKey
    /\ src = LongMsgB
    /\ ~ct.panic
    /\ Occurrences(src, 66) = 1
    /\ Occurrences(Written(ct), 66) = 2
    /\ ct.dst[1] = 66 /\ ct.dst[Len(src)] = 66

\* the place of the cell idx in the two-phase order of mask: the cells
\* outside the triangular region row-major, then the cells inside it row-major
OrderIndex(mask, idx) ==
    IF ~At(mask, idx)
    THEN Cardinality({j \in 0..(idx - 1) : ~At(mask, j)})
    ELSE Cardinality({j \in 0..(Len(mask) - 1) : ~At(mask, j)})
             + Cardinality({j \in 0..(idx - 1) : At(mask, j)})

\* the cell idx is among the first len cells of the two-phase order
Occupied(mask, idx, len) == OrderIndex(mask, idx) < len

\* the occupied cells of column col, top to bottom, when s is written in the
\* two-phase order
OccupiedCells(s, mask, klen, col) ==
    LET rows == Rows(Len(s), klen)
        InUse(r) == Occupied(mask, r * klen + col, Len(s))
        used == SelectSeq([r \in 1..rows |-> r - 1], InUse)
    IN  [k \in 1..Len(used) |-> At(s, OrderIndex(mask, used[k] * klen + col))]

\* the occupied cells of the columns of rank lo..hi-1, one column after the
\* other
RECURSIVE IrregularReadoutRange(_, _, _, _, _)
IrregularReadoutRange(ranks, s, mask, lo, hi) ==
    IF hi <= lo THEN <<>>
    ELSE IF hi = lo + 1
    THEN OccupiedCells(s, mask, Len(ranks), ColumnOfRank(ranks, lo))
    ELSE LET mid == (lo + hi) \div 2
         IN  IrregularReadoutRange(ranks, s, mask, lo, mid)
                 \o IrregularReadoutRange(ranks, s, mask, mid, hi)

IrregularReadoutByRank(key, s, mask) ==
    IrregularReadoutRange(ColumnRanks(key), s, mask, 0, Len(key))

\* the occupancy of encrypt is the first len(src) cells of the two-phase order
\* over the mask of the call, and the output lists the occupied cells of the
\* columns in rank order
TwoPhaseFill ==
    pc \in {"encrypted", "decrypted"} =>
        /\ ~ct.panic
        /\ ct.n = Len(src)
        /\ Len(ct.mask) = Rows(Len(src), Len(km.key)) * Len(km.key)
        /\ Len(ct.active) = Len(ct.mask)
        /\ \A idx \in 0..(Len(ct.mask) - 1) :
               At(ct.active, idx) <=> Occupied(ct.mask, idx, Len(src))
        /\ Written(ct) = IrregularReadoutByRank(km.key, src, ct.mask)
        /\ IsPermutationOf(Written(ct), src)

\* C20: IrregularTransposition.encrypt(src), with rows =
\* ceil(len(src)/len(key)), writes src in order first into the
\* non-triangular cells row-major and then into the triangular cells
\* row-major, so the occupied cells are exactly the first len(src) cells of
\* that two-phase order; the output lists, for the columns in rank order, the
\* occupied cells of each column top to bottom, and is a permutation of src of
\* length len(src).
C20_TwoPhaseFill == TwoPhaseFill

\* what holds of IrregularTransposition.encrypt: the same for every key of at
\* most 256 bytes
C20_TwoPhaseFillUpTo256 == Len(km.key) <= U8 => TwoPhaseFill

\* under the 257-byte key the whole row is triangular and filled in order,
\* and the readout takes the first column, of rank 256, first and once more in
\* place of the last: the output holds the byte 'B' twice
C20_Witness ==
    /\ pc = "encrypted"
    /\ km.key = LongKey
    /\ src = LongMsgB
    /\ ~ct.panic
    /\ \A idx \in 0..(Len(ct.mask) - 1) : At(ct.mask, idx) /\ At(ct.active, idx)
    /\ Occurrences(Written(ct), 66) = 2
    /\ ct.dst[1] = 66 /\ ct.dst[Len(src)] = 66

-----------------------------------------------------------------------------
(* The encoding rule of the checkerboard, as the specification states it.   *)

\* what the rule emits for the byte ch: marker code, digit twice, marker code
\* for a digit; the code of ch, empty when ch has none, for any other byte
RuleDigits(sc, ch) ==
    IF is_ascii_digit(ch)
    THEN Code(sc, 47) \o <<ch, ch>> \o Code(sc, 47)
    ELSE Code(sc, ch)

\* what the rule emits for the bytes of s from n on, in order
RECURSIVE RuleStream(_, _, _)
RuleStream(sc, s, n) ==
    IF n >= Len(s) THEN <<>>
    ELSE RuleDigits(sc, At(s, n)) \o RuleStream(sc, s, n + 1)

\* encrypt wrote the stream of the rule and returned its length
EncodingRule ==
    pc \in {"encrypted", "decrypted"} =>
        /\ ~ct.panic
        /\ Written(ct) = RuleStream(c, src, 0)
        /\ ct.n = Len(RuleStream(c, src, 0))

\* C21: StraddlingCheckerboard.encrypt emits, for each input byte in order,
\* (a) for an ASCII digit d the code of the escape marker '/', then d twice,
\* then the marker code again; (b) otherwise the byte's 1- or 2-digit code if
\* it has one; (c) nothing if the byte is unmapped.  The returned count is the
\* number of digits emitted and no error is raised.
C21_EncodingRule == EncodingRule

\* what holds of encrypt: the rule, for every checkerboard whose escape marker
\* has a code
C21_EncodingRuleWithMarker ==
    (pc \in {"encrypted", "decrypted"} /\ Code(c, 47) # <<>>) => EncodingRule

\* under the prefix "80" the marker has no code and the digits of "2A2" are
\* left out: only the code of 'A' was written
C21_Witness ==
    /\ pc = "encrypted"
    /\ km.key = KeyARABESQUE /\ km.chrs = <<56, 48>> /\ km.freq_str = FreqDefault
    /\ src = <<50, 65, 50>>
    /\ Code(c, 47) = <<>>
    /\ Written(ct) = Code(c, 65)
    /\ ct.n = 1

-----------------------------------------------------------------------------
(* StraddlingCheckerboard::decrypt on digit strings that no encrypt wrote,  *)
(* into destination buffers of several lengths.                             *)

\* longest generated input of decrypt
MaxCtLen == 4

\* input bytes: '0', '2', '8', '9' and the non-digit 'x'
DcBytes == {48, 50, 56, 57, 120}

\* "077080810797229708": the ciphertext of ATTACKAT2AM under ("ARABESQUE",
\* "89") without its last digit
CtATTACKAT2AMCut ==
    <<48, 55, 55, 48, 56, 48, 56, 49, 48, 55, 57, 55, 50, 50, 57, 55, 48, 56>>

\* destination buffers: empty, two bytes, the 100 bytes of the tests
DcDstLens == {0, 2, CallerBufLen}

DcInit ==
    /\ pc = "start"
    /\ km \in [key : {KeyARABESQUE}, chrs : {<<56, 57>>, <<51, 54>>, <<56, 48>>},
               dstlen : DcDstLens]
    /\ c = NoCipher
    /\ src \in SeqsUpTo(DcBytes, MaxCtLen) \cup {CtATTACKAT2AMCut}
    /\ ct = NoResult
    /\ pt = NoResult
    /\ ar = NoResult

\* StraddlingCheckerboard::new(km.key, km.chrs)
DcNew ==
    /\ pc = "start"
    /\ c' = StraddlingCheckerboard_new(km.key, km.chrs)
    /\ pc' = IF c'.ok THEN "ready" ELSE IF c'.panic THEN "panicked" ELSE "failed"
    /\ UNCHANGED <<km, src, ct, pt, ar>>

\* c.decrypt(&mut [0; km.dstlen], src)
DcDecrypt ==
    /\ pc = "ready"
    /\ pt' = StraddlingCheckerboard_decrypt(c, ZeroBuf(km.dstlen), src)
    /\ pc' = IF pt'.panic THEN "panicked" ELSE "decrypted"
    /\ UNCHANGED <<km, c, src, ct, ar>>

DcNext ==
    \/ DcNew
    \/ DcDecrypt

SpecMalformed == DcInit /\ [][DcNext]_vars

\* the digit b is one of the two prefix digits of sc
IsPrefixDigit(sc, b) == is_ascii_digit(b) /\ b \in Range(sc.longc)

\* s from i on, split into codes (a prefix digit with the byte after it, any
\* other byte alone), ends with a prefix digit that has no second digit
RECURSIVE EndsWithLonePrefix(_, _, _)
EndsWithLonePrefix(sc, s, i) ==
    IF i >= Len(s) THEN FALSE
    ELSE IF IsPrefixDigit(sc, At(s, i))
    THEN IF i + 1 >= Len(s) THEN TRUE ELSE EndsWithLonePrefix(sc, s, i + 2)
    ELSE EndsWithLonePrefix(sc, s, i + 1)

\* C22: StraddlingCheckerboard.decrypt never fails; when the input ends with
\* a prefix digit that has no second digit, that fragment is dropped and the
\* output is the decoding of the complete codes before it; the number of
\* bytes written never exceeds the length of the destination buffer or of the
\* input.
C22_MalformedInput ==
    /\ pc # "panicked"
    /\ pc = "decrypted" =>
           /\ ~pt.panic
           /\ pt.n <= Len(pt.dst) /\ Len(pt.dst) = km.dstlen
           /\ pt.n <= Len(src)
           /\ EndsWithLonePrefix(c, src, 0) =>
                  LET before == StraddlingCheckerboard_decrypt(
                                    c, ZeroBuf(km.dstlen), Slice(src, 0, Len(src) - 1))
                  IN  pt.n = before.n /\ pt.dst = before.dst

\* the cut ciphertext of ATTACKAT2AM was decoded to "ATTACKAT2A": the escape
\* was read as the digit 2 and the lone prefix digit 8 at the end was dropped
C22_Witness ==
    /\ pc = "decrypted"
    /\ km.chrs = <<56, 57>> /\ km.dstlen = CallerBufLen
    /\ src = CtATTACKAT2AMCut
    /\ EndsWithLonePrefix(c, src, 0)
    /\ Written(pt) = <<65, 84, 84, 65, 67, 75, 65, 84, 50, 65>>

-----------------------------------------------------------------------------
(* The VIC pipeline, stage by stage.                                        *)

\* the three stages of encipherment applied to s one after the other, each
\* on the bytes the stage before it wrote and into a buffer that holds them
StagesEncrypt(v, s) ==
    LET r1 == StraddlingCheckerboard_encrypt(v.sc, ZeroBuf(6 * Len(s)), s)
        r2 == Transposition_encrypt(v.firsttp, ZeroBuf(r1.n), Written(r1))
        r3 == IrregularTransposition_encrypt(v.secondtp, ZeroBuf(CallerBufLen), Written(r2))
    IN  [sc_len |-> r1.n, tp1_len |-> r2.n, n |-> r3.n, dst |-> r3.dst,
         panic |-> r1.panic \/ r2.panic \/ r3.panic]

\* the three stages of decipherment applied to s one after the other
StagesDecrypt(v, s) ==
    LET r1 == IrregularTransposition_decrypt(v.secondtp, ZeroBuf(Len(s)), s)
        r2 == Transposition_decrypt(v.firsttp, ZeroBuf(r1.n), Written(r1))
        r3 == StraddlingCheckerboard_decrypt(v.sc, ZeroBuf(CallerBufLen), Written(r2))
    IN  [tp2_len |-> r1.n, tp1_len |-> r2.n, n |-> r3.n, dst |-> r3.dst,
         panic |-> r1.panic \/ r2.panic \/ r3.panic]

\* encrypt and decrypt are the stages in order, with the lengths handed on
PipelineOrder ==
    /\ pc \in {"encrypted", "decrypted"} =>
           LET st == StagesEncrypt(c, src)
           IN  /\ ~st.panic /\ ~ct.panic
               /\ ct.dst = st.dst
               /\ ct.n = st.sc_len /\ st.tp1_len = st.sc_len /\ st.n = st.sc_len
    /\ pc = "decrypted" =>
           LET st == StagesDecrypt(c, Written(ct))
           IN  /\ ~st.panic /\ ~pt.panic
               /\ pt.dst = st.dst /\ pt.n = st.n
               /\ st.tp2_len = ct.n /\ st.tp1_len = ct.n

\* C23: VicCipher.encrypt(src) equals IrregularTransposition(keyB).encrypt(
\* Transposition(keyA).encrypt(StraddlingCheckerboard.encrypt(src))) and
\* returns the number of digits the checkerboard stage produced;
\* VicCipher.decrypt applies irregular decrypt, then regular decrypt, then
\* checkerboard decrypt, each stage consuming exactly the length produced by
\* the previous one.
C23_PipelineOrder == PipelineOrder

\* what holds of the pipeline: the same for every call of encrypt that
\* returns
C23_PipelineOrderReturned ==
    (pc \in {"encrypted", "decrypted"} /\ ~ct.panic) => PipelineOrder

\* the three stages give 6 digits for the plaintext "1", and encrypt
\* panicked in its checkerboard stage
C23_Witness ==
    /\ pc = "encrypted"
    /\ km = KmFixture
    /\ src = <<49>>
    /\ ct.panic /\ ct.stage = "sc"
    /\ StagesEncrypt(c, src).sc_len = 6
    /\ ~StagesEncrypt(c, src).panic

-----------------------------------------------------------------------------
(* The shape of the keys VicCipher::new derives.                            *)

\* s consists of ASCII digits
IsDigitString(s) == \A i \in 1..Len(s) : is_ascii_digit(s[i])

\* r consists of exactly 10 digits with values 0..9
TenDigits(r) == Len(r) = 10 /\ \A i \in 1..Len(r) : r[i] \in 0..9

\* the three keys of the cipher have the shape of the specification
KeyShape ==
    /\ TenDigits(c.firsttp.key)
    /\ TenDigits(c.secondtp.key)
    /\ Len(c.sc.key) = 10
    /\ {c.sc.key[i] - 48 : i \in 1..Len(c.sc.key)} = 0..9

\* the key material is made of digit strings and a passphrase of at least 20
\* characters, and new succeeded
DigitKeyMaterialBuilt ==
    /\ VicBuilt
    /\ IsDigitString(km.persn) /\ IsDigitString(km.ind) /\ IsDigitString(km.imsg)
    /\ Len(km.phrase) >= 20

\* C24: for every KeyMaterial made of digit strings and a passphrase of at
\* least 20 characters for which VicCipher::new succeeds, whatever the number
\* of digits in messageIndex, transpositionKeyA and transpositionKeyB each
\* consist of exactly 10 digits with values 0..9, and checkerboardKey is a
\* 10-element permutation of 0..9.
C24_KeyShape == DigitKeyMaterialBuilt => KeyShape

\* what holds of the keys: the same for every message index of at least 5
\* digits
C24_KeyShapeFiveDigits == (DigitKeyMaterialBuilt /\ Len(km.imsg) >= 5) => KeyShape

\* new succeeded with the message index "776" and keyed the transpositions
\* with 8 digits and the checkerboard with a permutation of 0..7
C24_Witness ==
    /\ pc = "ready"
    /\ km = KmImsg776
    /\ c.ok
    /\ Len(c.firsttp.key) = 8 /\ Len(c.secondtp.key) = 8
    /\ {c.sc.key[i] - 48 : i \in 1..Len(c.sc.key)} = 0..7

-----------------------------------------------------------------------------
(* chainadd_inplace on its own, and the five turns of expand_key.           *)

\* longest generated digit sequence
MaxDigits == 3

\* digits of the generated sequences
CaDigits == {0, 5, 9}

\* the cases of test_chainadd_inplace: 8 6 1 5 4 and 7 7 6 5 1
CaTestA == <<8, 6, 1, 5, 4>>
CaTestB == <<7, 7, 6, 5, 1>>

CaInit ==
    /\ pc = "start"
    /\ km \in {KmFixture, [KmFixture EXCEPT !.imsg = Imsg1391944]}
    /\ c = NoCipher
    /\ src \in SeqsUpTo(CaDigits, MaxDigits) \cup {CaTestA, CaTestB}
    /\ ct = NoResult
    /\ pt = NoResult
    /\ ar = <<>>

\* expand_key(phrase, imsg, ikey5) with the arguments of VicCipher::new
CaExpandKey ==
    /\ pc = "start"
    /\ c' = expand_key(km.phrase, str2int(km.imsg), str2int(Slice(km.ind, 0, 5)))
    /\ pc' = IF c'.panic THEN "panicked" ELSE "expanded"
    /\ UNCHANGED <<km, src, ct, pt, ar>>

\* chainadd_inplace(&mut a), on src first and then on its own result, at most
\* five times; ar holds the value of a after each call
CaChainAdd ==
    /\ Len(ar) < 5
    /\ ar' = Append(ar, chainadd_inplace(IF ar = <<>> THEN src ELSE ar[Len(ar)]))
    /\ UNCHANGED <<pc, km, c, src, ct, pt>>

CaNext ==
    \/ CaExpandKey
    \/ CaChainAdd

SpecChainAdd == CaInit /\ [][CaNext]_vars

\* a' with a'[i] = (a[i] + a[(i+1) mod n]) mod 10, every a the value before
CircularSum(a) ==
    IF Len(a) < 2 THEN a
    ELSE [i \in 1..Len(a) |-> (a[i] + a[(i % Len(a)) + 1]) % 10]

\* C25: chainadd_inplace on a sequence a of n >= 2 digits replaces it by a'
\* with a'[i] = (a[i] + a[(i+1) mod n]) mod 10 for every i, every a on the
\* right-hand side the value before the call; sequences of length 0 or 1 are
\* left unchanged; transpositionKeyB is the result of applying it five times
\* to transpositionKeyA.
C25_CircularChainAddition ==
    /\ \A k \in 1..Len(ar) :
           ar[k] = CircularSum(IF k = 1 THEN src ELSE ar[k - 1])
    /\ (Len(src) < 2 /\ ar # <<>>) => ar[1] = src
    /\ pc = "expanded" =>
           c.third = CircularSum(CircularSum(CircularSum(CircularSum(CircularSum(c.second)))))

\* 7 7 6 5 1 became 4 3 1 6 8 as in test_chainadd_inplace (the last digit is
\* 1 + 7, not 1 + 4), was chained five times, and the keys of the fixture
\* were derived
C25_Witness ==
    /\ pc = "expanded"
    /\ km = KmFixture
    /\ src = CaTestB
    /\ Len(ar) = 5
    /\ ar[1] = <<4, 3, 1, 6, 8>>
    /\ c.third = <<1, 2, 0, 4, 3, 1, 7, 5, 9, 8>>

-----------------------------------------------------------------------------
(* helpers::shuffle and helpers::shuffle_next on the same arguments.        *)

\* longest generated key and alphabet, in chars
MaxShLen == 3

\* chars of the generated strings: 'A', 'B' and U+00E9
ShChars == {65, 66, 233}

\* the generated strings, as UTF-8 bytes
ShStrings == {utf8_encode(cs) : cs \in SeqsUpTo(ShChars, MaxShLen)}

\* the arguments of test_shuffle, test_shuffle_odd and of Wheatstone::new
ShTests ==
    {[key |-> KeyARABESQUE, alphabet |-> ALPHABET_TXT],
     [key |-> KeySUBWAY, alphabet |-> ALPHABET_TXT],
     [key |-> KEY1, alphabet |-> ALPHABET],
     [key |-> KEY2, alphabet |-> ALPHABET],
     [key |-> utf8_char(233), alphabet |-> ALPHABET_TXT]}

ShInit ==
    /\ pc = "start"
    /\ km \in [key : ShStrings \ {<<>>}, alphabet : ShStrings] \cup ShTests
    /\ c = NoCipher
    /\ src = <<>>
    /\ ct = NoResult
    /\ pt = NoResult
    /\ ar = NoResult

\* helpers::shuffle(km.key, km.alphabet)
Shuffle ==
    /\ ct = NoResult
    /\ ct' = shuffle(km.key, km.alphabet)
    /\ pc' = IF pt = NoResult THEN "one" ELSE "both"
    /\ UNCHANGED <<km, c, src, pt, ar>>

\* helpers::shuffle_next(km.key, km.alphabet)
ShuffleNext ==
    /\ pt = NoResult
    /\ pt' = shuffle_next(km.key, km.alphabet)
    /\ pc' = IF ct = NoResult THEN "one" ELSE "both"
    /\ UNCHANGED <<km, c, src, ct, ar>>

\* StraddlingCheckerboard::new(km.key, "89"), whose full is
\* helpers::shuffle(km.key, ALPHABET_TXT) without the characters that are not
\* of the alphabet
ShCheckerboard ==
    /\ c = NoCipher
    /\ km.alphabet = ALPHABET_TXT
    /\ c' = StraddlingCheckerboard_new(km.key, <<56, 57>>)
    /\ UNCHANGED <<pc, km, src, ct, pt, ar>>

\* Wheatstone::new(b'M', km.key, km.key), whose wheels are '+' and
\* helpers::shuffle(km.key, ALPHABET), and helpers::shuffle(km.key, ALPHABET)
ShWheatstone ==
    /\ c = NoCipher
    /\ km.alphabet = ALPHABET
    /\ c' = Wheatstone_new(77, km.key, km.key)
    /\ UNCHANGED <<pc, km, src, ct, pt, ar>>

ShNext ==
    \/ Shuffle
    \/ ShuffleNext
    \/ ShCheckerboard
    \/ ShWheatstone

SpecShuffle == ShInit /\ [][ShNext]_vars

\* C26: for every non-empty key and every alphabet,
\* helpers::shuffle_next(key, alphabet) returns the same string as
\* helpers::shuffle(key, alphabet), for regular and irregular rectangles
\* alike.
C26_ShuffleNextRefinesShuffle == pc = "both" => pt = ct

\* s holds ASCII bytes only
IsAscii(s) == \A i \in 1..Len(s) : s[i] < 128

\* what holds of the two functions: the same string for every key and
\* alphabet of ASCII characters
C26_ShuffleNextAscii ==
    (pc = "both" /\ IsAscii(km.key) /\ IsAscii(km.alphabet)) => pt = ct

\* for the key "A" and the alphabet U+00E9 shuffle ends with U+FFFD, from
\* from_utf8_lossy of the lone byte 0xA9, and shuffle_next with U+00A9
C26_Witness ==
    /\ pc = "both"
    /\ km.key = <<65>> /\ km.alphabet = utf8_char(233)
    /\ ct = <<65>> \o utf8_char(195) \o utf8_char(65533)
    /\ pt = <<65>> \o utf8_char(195) \o utf8_char(169)

\* the characters of shuffle's result are those of condense(key + alphabet),
\* each one once
ShuffleIsPermutation ==
    ct # NoResult =>
        IsPermutationOf(chars(ct), chars(condense(km.key \o km.alphabet)))

\* C28: helpers::shuffle loses and duplicates nothing: for every non-empty
\* key and every alphabet, shuffle(key, alphabet) is a permutation of
\* condense(key + alphabet), each distinct character exactly once; so the
\* checkerboard's shuffled alphabet full is a permutation of its alphabet,
\* and the Wheatstone wheels built from keys of letters have 27 and 26
\* symbols.
C28_ShuffleIsPermutation ==
    /\ ShuffleIsPermutation
    /\ (c # NoCipher /\ km.alphabet = ALPHABET_TXT)
           => c.ok /\ IsPermutationOf(c.full, ALPHABET_TXT)
    /\ (c # NoCipher /\ km.alphabet = ALPHABET)
           => c.ok /\ Len(c.aplw) = 27 /\ Len(c.actw) = 26

\* what holds of shuffle: the permutation for every key and alphabet of
\* ASCII characters, together with the checkerboard's full and the sizes of
\* the wheels
C28_ShuffleIsPermutationAscii ==
    /\ (IsAscii(km.key) /\ IsAscii(km.alphabet)) => ShuffleIsPermutation
    /\ (c # NoCipher /\ km.alphabet = ALPHABET_TXT)
           => c.ok /\ IsPermutationOf(c.full, ALPHABET_TXT)
    /\ (c # NoCipher /\ km.alphabet = ALPHABET)
           => c.ok /\ Len(c.aplw) = 27 /\ Len(c.actw) = 26

\* for the key "A" and the alphabet U+00E9, condense(key + alphabet) is "A"
\* and U+00E9, and shuffle returned "A", U+00C3 and U+FFFD: U+00E9 is lost
C28_Witness ==
    /\ ct # NoResult
    /\ km.key = <<65>> /\ km.alphabet = utf8_char(233)
    /\ chars(condense(km.key \o km.alphabet)) = <<65, 233>>
    /\ chars(ct) = <<65, 195, 65533>>

-----------------------------------------------------------------------------
(* The shape of the triangular mask.                                        *)

\* the smallest element of a non-empty set of numbers
MinOf(S) == CHOOSE x \in S : \A y \in S : x <= y

\* C27: the triangular mask built by get_triangular_mask is exactly the set of
\* cells (row, col) with col >= min(p0, p1) + row; the region anchored at the
\* larger of the two anchor columns is contained in the region anchored at
\* the smaller one, so the second anchor never adds a cell and every row of
\* the mask is a single contiguous band reaching the right edge.
C27_MaskIsOneBand ==
    (pc \in {"encrypted", "decrypted"} /\ src # <<>>) =>
        LET klen == Len(c.tkey)
            rows == Rows(Len(src), klen)
            lo   == MinOf(Anchors(c.tkey))
        IN  /\ Len(ct.mask) = rows * klen
            /\ \A row \in 0..(rows - 1) : \A col \in 0..(klen - 1) :
                   /\ At(ct.mask, row * klen + col) <=> col >= lo + row
                   /\ \A p \in Anchors(c.tkey) : col >= p + row => At(ct.mask, row * klen + col)
                   /\ (At(ct.mask, row * klen + col) /\ col + 1 < klen)
                          => At(ct.mask, row * klen + col + 1)

\* under the key of test_irregular_transposition_mask, with the anchors 10
\* and 14, the mask over 9 rows is the band from column 10 + row on: row 4
\* starts at column 14 and row 7 holds no cell
C27_Witness ==
    /\ pc = "encrypted"
    /\ km.key = KeyMaskTest
    /\ Anchors(c.tkey) = {10, 14}
    /\ Rows(Len(src), Len(c.tkey)) = 9
    /\ At(ct.mask, 14) /\ At(ct.mask, 17 + 14)
    /\ ~At(ct.mask, (4 * 17) + 13) /\ At(ct.mask, (4 * 17) + 14)
    /\ \A col \in 0..16 : ~At(ct.mask, (7 * 17) + col)

-----------------------------------------------------------------------------
(* The deck of Solitaire under keying and keystream steps.  c is the        *)
(* cipher, ar the keystream values returned so far and pt.indexes the set   *)
(* of deck indexes read by the last operation.                              *)

\* longest generated passphrase
MaxPassLen == 3

\* most keystream steps on one cipher
MaxSteps == 10

\* chars of the generated passphrases: 'a', 'z' and '!'
PassChars == {97, 122, 33}

\* "foo" and "cryptonomicon" of test_solitaire_extra_examples
PassFoo == <<102, 111, 111>>
PassCryptonomicon == <<99, 114, 121, 112, 116, 111, 110, 111, 109, 105, 99, 111, 110>>

\* decks given to Solitaire::new: permutations of 1..54 with the jokers on
\* top, at the bottom in both orders, and at the two ends
CustomDecks ==
    {[i \in 1..54 |-> 55 - i],
     <<53, 54>> \o [i \in 1..52 |-> i],
     [i \in 1..52 |-> i] \o <<54, 53>>,
     <<54>> \o [i \in 1..52 |-> i] \o <<53>>,
     <<53>> \o [i \in 1..52 |-> 53 - i] \o <<54>>}

\* the indexes lo..hi-1 of the slice deck[lo..hi]
Cells(lo, hi) == lo..(hi - 1)

\* the indexes read by move_joker(deck, joker, n)
RECURSIVE move_joker_indexes(_, _, _)
move_joker_indexes(deck, joker, n) ==
    IF n = 0 THEN {}
    ELSE LET pos == Position(deck, joker)
         IN  (IF pos = 53 THEN {53, 1} ELSE {pos, pos + 1})
                 \cup move_joker_indexes(move_joker(deck, joker, 1), joker, n - 1)

\* the indexes read by count_cut(deck, count)
count_cut_indexes(deck, count) ==
    IF count < 53 THEN {53} \cup Cells(count, 53) \cup Cells(0, count) ELSE {}

\* the indexes read by the triple cut of advance_deck
triple_cut_indexes(deck) ==
    LET pos_a == Position(deck, 53)
        pos_b == Position(deck, 54)
        top_j == IF pos_a < pos_b THEN pos_a ELSE pos_b
        bot_j == IF pos_a < pos_b THEN pos_b ELSE pos_a
    IN  {pos_a, pos_b} \cup Cells(bot_j + 1, Len(deck)) \cup Cells(top_j, bot_j + 1)
            \cup Cells(0, top_j)

\* the indexes read by advance_deck(deck)
advance_deck_indexes(deck) ==
    LET d1 == move_joker(deck, 53, 1)
        d2 == move_joker(d1, 54, 2)
        d3 == triple_cut(d2)
    IN  move_joker_indexes(deck, 53, 1) \cup move_joker_indexes(d1, 54, 2)
            \cup triple_cut_indexes(d2)
            \cup {53} \cup count_cut_indexes(d3, joker_value(At(d3, 53)))

\* the indexes read by step(deck), the rounds after a joker included
RECURSIVE step_indexes(_)
step_indexes(deck) ==
    LET d == advance_deck(deck)
        count == joker_value(At(d, 0))
    IN  advance_deck_indexes(deck) \cup {0, count}
            \cup (IF At(d, count) <= 52 THEN {} ELSE step_indexes(d))

\* the indexes read by the for loop of new_with_passphrase from character i on
RECURSIVE passphrase_indexes(_, _, _)
passphrase_indexes(passphrase, i, deck) ==
    IF i >= Len(passphrase) THEN {}
    ELSE IF ~is_ascii_alphabetic(At(passphrase, i))
         THEN passphrase_indexes(passphrase, i + 1, deck)
         ELSE LET d == advance_deck(deck)
                  val == letter_value(At(passphrase, i))
              IN  advance_deck_indexes(deck) \cup count_cut_indexes(d, val)
                      \cup passphrase_indexes(passphrase, i + 1, count_cut(d, val))

DeckInit ==
    /\ pc = "start"
    /\ km \in [kind : {"passphrase"},
                passphrase : SeqsUpTo(PassChars, MaxPassLen) \cup {PassFoo, PassCryptonomicon}]
              \cup [kind : {"deck"}, deck : CustomDecks]
    /\ c = NoCipher
    /\ src = <<>>
    /\ ct = NoResult
    /\ pt = [indexes |-> {}]
    /\ ar = <<>>

\* Solitaire::new_with_passphrase(km.passphrase); new_unkeyed is the case of
\* the empty passphrase
DeckNewWithPassphrase ==
    /\ pc = "start" /\ km.kind = "passphrase"
    /\ c' = Solitaire_new_with_passphrase(km.passphrase)
    /\ pt' = [indexes |-> passphrase_indexes(km.passphrase, 0, UnkeyedDeck)]
    /\ pc' = IF c'.ok THEN "keyed" ELSE "panicked"
    /\ UNCHANGED <<km, src, ct, ar>>

\* Solitaire::new(km.deck)
DeckNew ==
    /\ pc = "start" /\ km.kind = "deck"
    /\ c' = Solitaire_new(km.deck)
    /\ pc' = IF c'.ok THEN "keyed" ELSE "panicked"
    /\ UNCHANGED <<km, src, ct, pt, ar>>

\* Solitaire::step on the working deck
DeckStep ==
    /\ pc \in {"keyed", "stepped"} /\ Len(ar) < MaxSteps
    /\ c' = [c EXCEPT !.deck = step(c.deck).deck]
    /\ ar' = Append(ar, step(c.deck).k)
    /\ pt' = [indexes |-> step_indexes(c.deck)]
    /\ pc' = "stepped"
    /\ UNCHANGED <<km, src, ct>>

DeckNext ==
    \/ DeckNewWithPassphrase
    \/ DeckNew
    \/ DeckStep

SpecDeck == DeckInit /\ [][DeckNext]_vars

\* deck holds each of the cards 1..54 once
IsDeck(deck) == Len(deck) = 54 /\ Range(deck) = 1..54

\* C29: starting from a deck that is a permutation of the cards 1..54, after
\* passphrase keying and after any number of keystream steps (move_joker,
\* triple cut, count_cut) the working deck is still a permutation of 1..54
\* with 54 cards, every index used to read the deck is within 0..53, and
\* every keystream value returned by step is in 1..26.
C29_DeckInvariant ==
    pc \in {"keyed", "stepped"} =>
        /\ IsDeck(c.deck)
        /\ IsDeck(move_joker(c.deck, 53, 1))
        /\ IsDeck(move_joker(move_joker(c.deck, 53, 1), 54, 2))
        /\ IsDeck(triple_cut(move_joker(move_joker(c.deck, 53, 1), 54, 2)))
        /\ IsDeck(advance_deck(c.deck))
        /\ pt.indexes \subseteq 0..53
        /\ \A i \in 1..Len(ar) : ar[i] \in 1..26

\* the ten keystream values of test_solitaire_keystream on the unkeyed deck
C29_Witness ==
    /\ pc = "stepped"
    /\ km.kind = "passphrase" /\ km.passphrase = <<>>
    /\ ar = <<4, 23, 10, 24, 8, 25, 18, 6, 4, 7>>
    /\ IsDeck(c.deck) /\ c.deck # UnkeyedDeck
    /\ pt.indexes = 0..53

-----------------------------------------------------------------------------
(* nihilist.rs: Nihilist, a straddling checkerboard followed by a regular   *)
(* transposition.                                                           *)

\* Nihilist::new
Nihilist_new(key1, key2, chrs) ==
    LET sc == StraddlingCheckerboard_new(key1, chrs)
        transp == Transposition_new(key2)
    IN  IF ~sc.ok THEN sc
        ELSE IF ~transp.ok THEN [ok |-> FALSE, panic |-> FALSE, err |-> transp.err]
        ELSE [ok |-> TRUE, sc |-> sc, transp |-> transp]

\* Nihilist::encrypt(dst, src): the checkerboard writes into buf of
\* 2 * src.len() bytes, the transposition into dst; stage names the call that
\* panicked
Nihilist_encrypt(self, dst, s) ==
    LET r1 == StraddlingCheckerboard_encrypt(self.sc, ZeroBuf(2 * Len(s)), s)
        r2 == Transposition_encrypt(self.transp, dst, Slice(r1.dst, 0, r1.n))
    IN  IF r1.panic THEN [panic |-> TRUE, stage |-> "sc", dst |-> dst, n |-> 0]
        ELSE IF r2.panic THEN [panic |-> TRUE, stage |-> "transp", dst |-> dst, n |-> 0]
        ELSE [panic |-> FALSE, stage |-> "", dst |-> r2.dst, n |-> r2.n]

\* Nihilist::decrypt(dst, src)
Nihilist_decrypt(self, dst, s) ==
    LET r1 == Transposition_decrypt(self.transp, ZeroBuf(Len(s)), s)
        r2 == StraddlingCheckerboard_decrypt(self.sc, dst, Slice(r1.dst, 0, r1.n))
    IN  IF r1.panic THEN [panic |-> TRUE, stage |-> "transp", dst |-> dst, n |-> 0]
        ELSE [panic |-> FALSE, stage |-> "", dst |-> r2.dst, n |-> r2.n]

\* "IFYOUCANREADTHIS" and "1037306631738227035749" of test_nihilist_encrypt
PtIFYOUCANREADTHIS ==
    <<73, 70, 89, 79, 85, 67, 65, 78, 82, 69, 65, 68, 84, 72, 73, 83>>
CtIFYOUCANREADTHIS ==
    <<49, 48, 51, 55, 51, 48, 54, 54, 51, 49, 55, 51, 56, 50, 50, 55, 48, 51, 53, 55, 52, 57>>

\* plaintext symbols: 'A', 'K' and '2'
NhPtBytes == {65, 75, 50}

NhInit ==
    /\ pc = "start"
    /\ km \in [key1 : {KeyARABESQUE, <<>>}, key2 : {KeySUBWAY, <<>>},
                chrs : {<<51, 55>>, <<56, 57>>}]
    /\ c = NoCipher
    /\ src \in SeqsUpTo(NhPtBytes, MaxPtLen) \cup {PtIFYOUCANREADTHIS}
    /\ ct = NoResult
    /\ pt = NoResult
    /\ ar = NoResult

\* Nihilist::new(km.key1, km.key2, km.chrs)
NihilistNew ==
    /\ pc = "start"
    /\ c' = Nihilist_new(km.key1, km.key2, km.chrs)
    /\ pc' = IF c'.ok THEN "ready" ELSE IF c'.panic THEN "panicked" ELSE "failed"
    /\ UNCHANGED <<km, src, ct, pt, ar>>

\* c.encrypt(&mut [0; 100], src)
NihilistEncrypt ==
    /\ pc = "ready"
    /\ ct' = Nihilist_encrypt(c, ZeroBuf(CallerBufLen), src)
    /\ pc' = "encrypted"
    /\ UNCHANGED <<km, c, src, pt, ar>>

\* c.decrypt(&mut [0; 100], &ct[..n])
NihilistDecrypt ==
    /\ pc = "encrypted"
    /\ ~ct.panic
    /\ pt' = Nihilist_decrypt(c, ZeroBuf(CallerBufLen), Slice(ct.dst, 0, ct.n))
    /\ pc' = "decrypted"
    /\ UNCHANGED <<km, c, src, ct, ar>>

NhNext ==
    \/ NihilistNew
    \/ NihilistEncrypt
    \/ NihilistDecrypt

SpecNihilist == NhInit /\ [][NhNext]_vars

\* the digit stream of the checkerboard stage for src, written into a buffer
\* that is long enough for it
DigitStream == StraddlingCheckerboard_encrypt(c.sc, ZeroBuf(6 * Len(src)), src)

\* C30: Nihilist::encrypt never writes outside its intermediate buffer of
\* 2 * len(src) bytes: for every plaintext src, plaintext with ASCII digits
\* included, the digit stream produced by the checkerboard stage has at most
\* 2 * len(src) digits.
C30_IntermediateBuffer ==
    pc = "encrypted" =>
        /\ ~(ct.panic /\ ct.stage = "sc")
        /\ ~DigitStream.panic /\ DigitStream.n <= 2 * Len(src)

\* what holds: for plaintext without ASCII digits the stream has at most
\* 2 * len(src) digits and the checkerboard stage does not panic
C30_IntermediateBufferNoDigits ==
    (pc = "encrypted" /\ \A i \in 1..Len(src) : ~is_ascii_digit(src[i])) =>
        /\ ~ct.panic
        /\ ~DigitStream.panic /\ DigitStream.n <= 2 * Len(src)
        /\ src = PtIFYOUCANREADTHIS /\ km.chrs = <<51, 55>>
               => Written(ct) = CtIFYOUCANREADTHIS

\* under ("ARABESQUE", "SUBWAY", "37") the plaintext "2" needs 6 digits, and
\* the checkerboard stage panicked on its buffer of 2 bytes
C30_Witness ==
    /\ pc = "encrypted"
    /\ km.chrs = <<51, 55>>
    /\ src = <<50>>
    /\ ct.panic /\ ct.stage = "sc"
    /\ DigitStream.n = 6

=============================================================================
